---- MODULE Spec2Model ----
(***************************************************************************)
(* State distribution and per-button rendering of the RuneLite Stream Deck *)
(* plugin: the HTTP state store (state-server), the push based kinds that  *)
(* listen to it (health meter, prayer meter, special attack meter, tab     *)
(* button) and the polling kinds (prayer button, run meter).               *)
(*                                                                         *)
(* Every handler of the source is an async function.  An action of this    *)
(* module is one synchronous stretch of a handler: from its start, or from *)
(* the resumption after an await, up to the next await or its end.  Device *)
(* calls (setSettings, setImage) and fetches that are awaited are kept as  *)
(* pending records and resumed by actions of their own, in any order.      *)
(***************************************************************************)
EXTENDS Integers, Sequences, FiniteSets, TLC

VARIABLES
    currentState,      \* state-server: currentState
    listeners,         \* state-server: listeners (a Set, iterated in insertion order)
    httpLog,           \* what the last HTTP request did: status, listeners called, order
    visible,           \* per kind, the buttons the host currently shows
    activeButtons,     \* per kind, keys of the activeButtons map
    cachedSettings,    \* per kind, settings stored per button id
    lastButtonStates,  \* tab / prayer button: last rendered fingerprint per id
    activeButtonCount, \* polling kinds: activeButtonCount
    pollingInterval,   \* polling kinds: pollingInterval (0 is null)
    tasks,             \* lifecycle handlers suspended at an await
    inflight,          \* setImage calls awaited by a render, not yet settled
    fetches,           \* polling kinds: polls suspended at fetch / response.json()
    shown,             \* per kind and id, the image of the last setImage call
    lastRun,           \* history: the render runs of a kind that ran alone
    owed,              \* history: prayer buttons sent settings, no setImage since
    stale,             \* run meter: pending polls that a later poll has overtaken
    atJson,            \* polling kinds: polls past their fetch, at response.json()
    cachedImages,      \* tab button: keys of the cachedImages map
    server,            \* state-server: server (0 is null, else the http.Server)
    currentPort,       \* state-server: currentPort
    servers,           \* the http.Server objects created so far, by number
    legacy,            \* polling tab button: its module variables and handlers
    step               \* history: the last action, the setImage calls it issued

vars == <<currentState, listeners, httpLog, visible, activeButtons, cachedSettings,
          lastButtonStates, activeButtonCount, pollingInterval, tasks, inflight,
          fetches, shown, lastRun, owed, stale, atJson, cachedImages, server,
          currentPort, servers, legacy, step>>

storeVars == <<currentState, listeners, httpLog>>
sideVars  == <<server, currentPort, servers, legacy>>
pollVars  == <<activeButtonCount, pollingInterval, fetches, owed, stale, atJson,
               cachedImages, sideVars>>

\* every variable of the buttons and of the store's state and listeners
appVars == <<storeVars, visible, activeButtons, cachedSettings, lastButtonStates,
             activeButtonCount, pollingInterval, tasks, inflight, fetches, shown,
             lastRun, owed, stale, atJson, cachedImages>>

-----------------------------------------------------------------------------
(* Bounds *)

MaxInflight == 2         \* pending setImage calls of renders
MaxTasks == 1            \* lifecycle handlers suspended at the same time
MaxFetches == 2          \* polls of one kind suspended at their fetch
MaxVisible == 3          \* keys of the deck, where a specification limits them
MaxServers == 4          \* http.Server objects created by startServer
MaxErrors == 7           \* consecutive fetch failures of the polling tab button

Ids == {"b1", "b2"}      \* the button ids (action.id) of each kind

PushKinds == {"health", "prayermeter", "spec", "tab"}
PollKinds == {"prayerbutton", "run"}
MeterKinds == {"health", "prayermeter", "spec"}
KeyKinds == {"map"}
Kinds == PushKinds \cup PollKinds \cup KeyKinds

-----------------------------------------------------------------------------
(* Values *)

Undef == -1                  \* an absent numeric field
NoTab == "<undefined>"       \* an absent activeTab
NoImg == [kind |-> "none"] \* a button that was sent no image

\* currentState = {} (state-server line 39); json: the kind of JSON value the
\* snapshot is, where a property read of a number, a string or an array
\* gives undefined as for {}
EmptyState ==
    [json |-> "object", player |-> FALSE,
     hpCur |-> Undef, hpMax |-> Undef, hpStatus |-> "none",
     prCur |-> Undef, prMax |-> Undef,
     runEnergy |-> Undef, runEnabled |-> FALSE,
     spec |-> Undef, specEnabled |-> FALSE, specAvailable |-> FALSE,
     activePrayers |-> 0,
     activeTab |-> NoTab]

\* String.prototype.toLowerCase on the strings the model uses
ToLower(s) ==
    CASE s = "Inventory" -> "inventory"
      [] s = "Combat"    -> "combat"
      [] s = "COMBAT"    -> "combat"
      [] s = "Piety"     -> "piety"
      [] OTHER           -> s

None == {}
Some(x) == {x}
Get(o) == CHOOSE x \in o : TRUE

-----------------------------------------------------------------------------
(* Tab button (tab-button.ts) *)

TAB_ICONS ==
    [combat |-> "combat.png", skills |-> "skills.png", quests |-> "quest.png",
     inventory |-> "inventory.png", equipment |-> "equipment.png",
     prayer |-> "prayer.png", magic |-> "magic.png",
     grouping |-> "grouping_chat.png", account |-> "account.png",
     friends |-> "friends.png", settings |-> "settings.png",
     emotes |-> "emotes.png", music |-> "music.png"]

DEFAULT_KEYS ==
    [combat |-> "f1", skills |-> "f2", quests |-> "f3", inventory |-> "escape",
     equipment |-> "f4", prayer |-> "f5", magic |-> "f6", grouping |-> "f7",
     account |-> "f8", friends |-> "f9", settings |-> "f10", emotes |-> "f11",
     music |-> "f12"]

\* createTabImage: background by isActive, icon by lower-cased tab name
createTabImage(tabName, isActive) ==
    [kind |-> "tab",
     background |-> IF isActive THEN "backgroud_active.png" ELSE "backgroud_unactive.png",
     icon |-> IF ToLower(tabName) \in DOMAIN TAB_ICONS
              THEN TAB_ICONS[ToLower(tabName)] ELSE "inventory.png"]

\* defaults that ignore the key table
TabDefaults_escape(s) ==
    [tabName |-> IF s.tabName = "" THEN "inventory" ELSE s.tabName,
     keyToPress |-> IF s.keyToPress # "" THEN s.keyToPress ELSE "escape"]

\* the defaults onWillAppear fills in (tab-button.ts 121-128)
TabDefaults(s) ==
    LET tn == IF s.tabName = "" THEN "inventory" ELSE s.tabName
    IN  [tabName |-> tn,
         keyToPress |-> IF s.keyToPress # "" THEN s.keyToPress
                        ELSE IF ToLower(tn) \in DOMAIN DEFAULT_KEYS
                             THEN DEFAULT_KEYS[ToLower(tn)] ELSE "escape"]

TabNeedsUpdate(s) == s.tabName = "" \/ s.keyToPress = ""

\* (buttonData.settings.tabName || 'inventory').toLowerCase()
TabNameOf(s) == ToLower(IF s.tabName = "" THEN "inventory" ELSE s.tabName)

\* state.activeTab?.toLowerCase()
ActiveTabOf(state) == IF state.activeTab = NoTab THEN NoTab ELSE ToLower(state.activeTab)

TabIsActive(state, s) == TabNameOf(s) = ActiveTabOf(state)

\* a comparison that never finds the fingerprint equal
FpDiffers_always(last, isActive, name) == TRUE

\* lastState?.isActive !== isActive || lastState?.tabName !== tabName
FpDiffers(last, isActive, name) ==
    \/ last = None
    \/ Get(last).isActive # isActive
    \/ Get(last).name # name

\* the setImage calls one run of updateTabButtons(state) issues, given the
\* registered buttons, their settings and fingerprints: one per registered
\* button whose fingerprint differs; each carries the fingerprint that is
\* stored once the call resolves
TabCallsOn(state, act, cs, lbs) ==
    {[kind |-> "tab", id |-> i,
      img |-> createTabImage(TabNameOf(Get(cs[i])), TabIsActive(state, Get(cs[i]))),
      fp |-> [isActive |-> TabIsActive(state, Get(cs[i])),
              name |-> TabNameOf(Get(cs[i]))]] :
     i \in {j \in act : FpDiffers(lbs[j], TabIsActive(state, Get(cs[j])),
                                  TabNameOf(Get(cs[j])))}}

TabCalls(state) ==
    TabCallsOn(state, activeButtons["tab"], cachedSettings["tab"],
               lastButtonStates["tab"])

-----------------------------------------------------------------------------
(* Meter renderers (health-meter, prayer-meter.ts, special-attack-meter,   *)
(* run-meter)                                                             *)

\* n / d truncated
Round_floor(n, d) == n \div d

\* Math.round(n / d) for d > 0: the nearest integer, halves towards +infinity
Round(n, d) == (2 * n + d) \div (2 * d)

\* x || dflt for an optional number: undefined and 0 both give the default
OrDefault(x, dflt) == IF x = Undef \/ x = 0 THEN dflt ELSE x

HexDigit == <<"0", "1", "2", "3", "4", "5", "6", "7", "8", "9",
              "A", "B", "C", "D", "E", "F">>

\* n.toString(16).padStart(2, '0').toUpperCase() for 0 <= n <= 255
Hex2(n) == <<HexDigit[(n \div 16) + 1], HexDigit[(n % 16) + 1]>>

White == <<"#", "F", "F", "F", "F", "F", "F">>

\* a gradient from green to red
getPercentColor_swapped(n, d) ==
    LET cn == IF n < 0 THEN 0 ELSE IF n > d THEN d ELSE n
        r == IF 2 * cn > d THEN Round(255 * (2 * d - 2 * cn), d) ELSE 255
        g == IF 2 * cn > d THEN 255 ELSE Round(255 * 2 * cn, d)
    IN  <<"#">> \o Hex2(g) \o Hex2(r) \o <<"0", "0">>

\* getPercentColor(n / d), d > 0
getPercentColor(n, d) ==
    LET cn == IF n < 0 THEN 0 ELSE IF n > d THEN d ELSE n   \* clamp to [0,1]
        r == IF 2 * cn > d THEN Round(255 * (2 * d - 2 * cn), d) ELSE 255
        g == IF 2 * cn > d THEN 255 ELSE Round(255 * 2 * cn, d)
    IN  <<"#">> \o Hex2(r) \o Hex2(g) \o <<"0", "0">>

getTextPosition(position) ==
    CASE position = "top-left"     -> [x |-> 40,  y |-> 40]
      [] position = "top"          -> [x |-> 72,  y |-> 40]
      [] position = "top-right"    -> [x |-> 104, y |-> 40]
      [] position = "left"         -> [x |-> 40,  y |-> 80]
      [] position = "right"        -> [x |-> 104, y |-> 80]
      [] position = "bottom-left"  -> [x |-> 40,  y |-> 120]
      [] position = "bottom"       -> [x |-> 72,  y |-> 120]
      [] position = "bottom-right" -> [x |-> 104, y |-> 120]
      [] OTHER                     -> [x |-> 72,  y |-> 80]

\* cachedSettings.get(id) || {}
EmptySettings ==
    [coloredNumbers |-> "undefined", showNumbers |-> "undefined",
     textPosition |-> "undefined"]

\* the two <text> elements, drawn unless showNumbers === false
MeterText(settings, value, n, d) ==
    IF settings.showNumbers # "false"
    THEN [value |-> value,
          pos |-> getTextPosition(settings.textPosition),
          color |-> IF settings.coloredNumbers = "true"
                    THEN getPercentColor(n, d) ELSE White]
    ELSE [value |-> Undef, pos |-> [x |-> 0, y |-> 0], color |-> <<>>]

STATUS_COLORS ==
    [normal |-> "#B00905", poisoned |-> "#19DA00", venomed |-> "#24573D",
     diseased |-> "#C5BA73"]

\* a fill colour that ignores disease next to poison or venom
getHealthFillColor_single(data) ==
    LET c == CASE data.hpStatus \in {"poisoned", "poisoned_diseased"} -> "#19DA00"
               [] data.hpStatus \in {"venomed", "venomed_diseased"} -> "#24573D"
               [] data.hpStatus = "diseased" -> "#C5BA73"
               [] OTHER -> "#B00905"
    IN  [split |-> FALSE, left |-> c, right |-> c]

getHealthFillColor(data) ==
    CASE data.hpStatus = "poisoned_diseased" ->
            [split |-> TRUE, left |-> STATUS_COLORS.poisoned,
             right |-> STATUS_COLORS.diseased]
      [] data.hpStatus = "venomed_diseased" ->
            [split |-> TRUE, left |-> STATUS_COLORS.venomed,
             right |-> STATUS_COLORS.diseased]
      [] data.hpStatus = "poisoned" ->
            [split |-> FALSE, left |-> STATUS_COLORS.poisoned,
             right |-> STATUS_COLORS.poisoned]
      [] data.hpStatus = "venomed" ->
            [split |-> FALSE, left |-> STATUS_COLORS.venomed,
             right |-> STATUS_COLORS.venomed]
      [] data.hpStatus = "diseased" ->
            [split |-> FALSE, left |-> STATUS_COLORS.diseased,
             right |-> STATUS_COLORS.diseased]
      [] OTHER ->
            [split |-> FALSE, left |-> STATUS_COLORS.normal,
             right |-> STATUS_COLORS.normal]

createHealthMeterImage(data, settings) ==
    LET currentHealth == OrDefault(data.hpCur, 0)
        maxHealth == OrDefault(data.hpMax, 100)
        n == IF maxHealth > 0 THEN currentHealth ELSE 0
        d == IF maxHealth > 0 THEN maxHealth ELSE 1
        fillHeight == Round(144 * n, d)
    IN  [kind |-> "health",
         fillHeight |-> fillHeight, fillY |-> 144 - fillHeight,
         fill |-> getHealthFillColor(data),
         text |-> MeterText(settings, currentHealth, n, d)]

createPrayerMeterImage(data, settings) ==
    LET currentPrayer == OrDefault(data.prCur, 0)
        maxPrayer == OrDefault(data.prMax, 1)
        quickPrayerActive == data.activePrayers > 0
        n == IF maxPrayer > 0 THEN currentPrayer ELSE 0
        d == IF maxPrayer > 0 THEN maxPrayer ELSE 1
    IN  [kind |-> "prayermeter",
         maskHeight |-> Round(144 * (d - n), d),
         background |-> IF quickPrayerActive THEN "Prayer_orb_enabled_backgroud.png"
                        ELSE "Prayer_orb_disabled_backgroud.png",
         overlay |-> IF quickPrayerActive THEN "Prayer_orb_enabled.png"
                     ELSE "Prayer_orb_disabled.png",
         text |-> MeterText(settings, currentPrayer, n, d)]

\* a fill asset chosen with `available` first
getFillImage_available(enabled, available) ==
    IF available THEN "special_attack_orb_available_fill.png"
    ELSE IF enabled THEN "special_attack_orb_enable_fill.png"
    ELSE "special_attack_orb_unavailable_fill.png"

getFillImage(enabled, available) ==
    IF enabled THEN "special_attack_orb_enable_fill.png"
    ELSE IF available THEN "special_attack_orb_available_fill.png"
    ELSE "special_attack_orb_unavailable_fill.png"

createSpecialAttackMeterImage(data, settings) ==
    LET specialAttack == OrDefault(data.spec, 0)
    IN  [kind |-> "spec",
         maskHeight |-> Round(144 * (100 - specialAttack), 100),
         fill |-> getFillImage(data.specEnabled, data.specAvailable),
         text |-> MeterText(settings, specialAttack, specialAttack, 100)]

RUN_COLORS == [enabled |-> "#CEA801", disabled |-> "#ACADA3"]

createRunMeterImage(data) ==
    LET runEnergy == OrDefault(data.runEnergy, 0)
        fillHeight == Round(144 * runEnergy, 10000)
    IN  [kind |-> "run",
         fillHeight |-> fillHeight, fillY |-> 144 - fillHeight,
         fill |-> IF data.runEnabled THEN RUN_COLORS.enabled ELSE RUN_COLORS.disabled,
         overlay |-> IF data.runEnabled THEN "Run_energy_orb_enabled.png"
                     ELSE "Run_energy_orb_disabled.png",
         text |-> [value |-> runEnergy \div 100, pos |-> [x |-> 72, y |-> 80],
                   color |-> White]]

\* the renderer of each meter kind
MeterImage(k, data, settings) ==
    CASE k = "health"      -> createHealthMeterImage(data, settings)
      [] k = "prayermeter" -> createPrayerMeterImage(data, settings)
      [] k = "spec"        -> createSpecialAttackMeterImage(data, settings)
      [] k = "run"         -> createRunMeterImage(data)

\* the defaults a push meter's onWillAppear fills in
MeterDefaults(s) ==
    [coloredNumbers |-> IF s.coloredNumbers = "undefined" THEN "false" ELSE s.coloredNumbers,
     showNumbers |-> IF s.showNumbers = "undefined" THEN "true" ELSE s.showNumbers,
     textPosition |-> s.textPosition]

\* cachedSettings.get(id) || {}
MeterSettingsOf(k, i) ==
    IF cachedSettings[k][i] = None THEN EmptySettings ELSE Get(cachedSettings[k][i])

\* the setImage calls one run of update<Kind>Meters(state) issues: one per
\* registered button, with the settings of cachedSettings or {}
MeterCalls(k, state) ==
    {[kind |-> k, id |-> i, img |-> MeterImage(k, state, MeterSettingsOf(k, i))] :
     i \in activeButtons[k]}

-----------------------------------------------------------------------------
(* History and device bookkeeping *)

\* the buttons a set of setImage calls addresses
Pushes(calls) == {<<c.kind, c.id>> : c \in calls}

\* the history of an action: its name, the button of its event, the buttons
\* it called setImage for, the keys it sent through keysender in order
KeyStepOf(op, k, i, calls, keys) ==
    [op |-> op, kind |-> k, id |-> i, pushes |-> Pushes(calls), keys |-> keys]

StepOf(op, k, i, calls) == KeyStepOf(op, k, i, calls, <<>>)

\* a button that disappears no longer shows an image
ShownWithout(k, i) == [shown EXCEPT ![k][i] = NoImg]

\* the device shows the image of the last setImage call of each button
ShownAfter(calls) ==
    [k \in Kinds |-> [i \in Ids |->
        IF \E c \in calls : c.kind = k /\ c.id = i
        THEN (CHOOSE c \in calls : c.kind = k /\ c.id = i).img
        ELSE shown[k][i]]]

\* lastRun[k] follows the render runs of kind k (updateTabButtons,
\* updatePrayerButtons) that run alone:
\*   "fetching"  a run that started with no other run of the kind pending
\*               waits for its fetch
\*   "running"   such a run waits for its setImage calls
\*   "done"      it has completed, and since then neither the registered
\*               buttons nor their settings have changed; data is its snapshot
\*   "second"    the next run, started after that, waits for its fetch
\*   "twice"     the latest step was that next run, on the same snapshot
\*   "caught"    a setImage call of it has rejected and its catch block ran
\*   "none"      otherwise
NoRun == [st |-> "none", data |-> None]
Pending(k) == {c \in inflight : c.kind = k}

Touch(k) == lastRun' = [lastRun EXCEPT ![k] = NoRun]

\* a run of kind k with snapshot d issues `calls` in this step; `changed`:
\* the step has changed the buttons or settings before the run
RunNow(k, d, changed, calls) ==
    lastRun' = [lastRun EXCEPT ![k] =
        IF @.st \in {"done", "twice", "second"} /\ ~changed /\ @.data = Some(d)
        THEN [st |-> "twice", data |-> Some(d)]
        ELSE IF Pending(k) = {} /\ (@.st \in {"fetching", "second"} \/ k = "tab")
        THEN [st |-> IF calls = {} THEN "done" ELSE "running", data |-> Some(d)]
        ELSE NoRun]

\* n runs of a polling kind start in this step and suspend at their fetch
RunsStarted(k, n, changed) ==
    IF k \notin DOMAIN lastRun THEN UNCHANGED lastRun
    ELSE
    lastRun' = [lastRun EXCEPT ![k] =
        IF n = 0 THEN (IF changed THEN NoRun ELSE @)
        ELSE IF n = 1 /\ fetches[k] = 0 /\ Pending(k) = {}
        THEN IF @.st \in {"done", "twice"} /\ ~changed
             THEN [st |-> "second", data |-> @.data]
             ELSE [st |-> "fetching", data |-> None]
        ELSE NoRun]

\* a setImage call of kind k resolves
RunResolved(c) ==
    lastRun' = [lastRun EXCEPT ![c.kind] =
        IF @.st = "running" /\ Pending(c.kind) = {c} THEN [@ EXCEPT !.st = "done"]
        ELSE @]

-----------------------------------------------------------------------------
(* State store (state-server) *)

\* Set.add: appends unless present; Set.delete: removes, order kept
SetAdd(ls, l) == IF \E n \in 1..Len(ls) : ls[n] = l THEN ls ELSE Append(ls, l)
SetDelete(ls, l) == SelectSeq(ls, LAMBDA x : x # l)

addStateListener(l) == listeners' = SetAdd(listeners, l)

\* a removal that leaves the listener registered
removeStateListener_keep(l) == UNCHANGED listeners

removeStateListener(l) == listeners' = SetDelete(listeners, l)

RECURSIVE notifyListeners(_, _)

\* a loop that the exception of a listener ends
notifyListeners_stop(ls, throwers) ==
    LET at == {n \in 1..Len(ls) : ls[n] \in throwers}
    IN  IF at = {} THEN ls
        ELSE SubSeq(ls, 1, CHOOSE n \in at : \A m \in at : n <= m)

\* notifyListeners: the listeners that get called, in order; an exception of
\* a listener is caught inside the loop
notifyListeners(ls, throwers) ==
    IF ls = <<>> THEN <<>>
    ELSE <<Head(ls)>> \o notifyListeners(Tail(ls), throwers)

\* the setImage calls the listener of kind k issues when called with state
\* (a property read of null throws: in the async updateTabButtons before its
\* first setImage, in the meters inside the try block of each button)
ListenerCalls(k, state) ==
    CASE state.json = "null" -> {}
      [] k = "tab" -> TabCalls(state)
      [] k \in MeterKinds -> MeterCalls(k, state)
      [] OTHER -> {}

SeqToSet(q) == {q[n] : n \in 1..Len(q)}

\* POST /state with a body that parses to the snapshot `body`; `throwers`
\* are the listeners that throw when called
PostState(body, throwers) ==
    LET called == notifyListeners(listeners, throwers)
        done == Len(called) = Len(listeners)      \* no exception left the loop
        ran == SeqToSet(called) \ throwers
        calls == UNION {ListenerCalls(k, body) : k \in ran}
    IN  /\ throwers \subseteq (SeqToSet(listeners) \cap {"ext"})
        /\ Cardinality(inflight \cup {c \in calls : c.kind = "tab"}) <= MaxInflight
        /\ currentState' = body
        /\ httpLog' = [req |-> "POST /state",
                       status |-> IF done THEN 200 ELSE 400,
                       threw |-> throwers,
                       events |-> [n \in 1..Len(called) |-> called[n]]
                                  \o <<"writeHead">>]
        /\ inflight' = inflight \cup {c \in calls : c.kind = "tab"}
        /\ shown' = ShownAfter(calls)
        /\ IF "tab" \in ran
           THEN RunNow("tab", body, FALSE, {c \in calls : c.kind = "tab"})
           ELSE UNCHANGED lastRun
        /\ step' = StepOf("PostState", "store", "-", calls)
        /\ UNCHANGED <<listeners, visible, activeButtons, cachedSettings,
                       lastButtonStates, tasks, pollVars>>

\* a further module registers a listener of its own through the exported
\* addStateListener, and removes it through removeStateListener
AddExt ==
    /\ addStateListener("ext")
    /\ step' = StepOf("AddExt", "store", "-", {})
    /\ UNCHANGED <<currentState, httpLog, visible, activeButtons, cachedSettings,
                   lastButtonStates, tasks, inflight, shown, lastRun, pollVars>>

RemoveExt ==
    /\ removeStateListener("ext")
    /\ step' = StepOf("RemoveExt", "store", "-", {})
    /\ UNCHANGED <<currentState, httpLog, visible, activeButtons, cachedSettings,
                   lastButtonStates, tasks, inflight, shown, lastRun, pollVars>>

\* JSON.parse on the request bodies of the model: the snapshot a JSON text
\* denotes, None where JSON.parse throws a SyntaxError
JSON_parse(text) ==
    CASE text = "{}" -> Some(EmptyState)
      [] text = "{\"player\":{\"name\":\"a\"}}" ->
            Some([EmptyState EXCEPT !.player = TRUE])
      [] text = "null" -> Some([EmptyState EXCEPT !.json = "null"])
      [] text = "5" -> Some([EmptyState EXCEPT !.json = "number"])
      [] OTHER -> None

\* a response that installs the initial state again
Respond_reset(method, url, status) ==
    /\ currentState' = EmptyState
    /\ httpLog' = [req |-> method \o " " \o url, status |-> status,
                   threw |-> {}, events |-> <<"writeHead">>]
    /\ step' = StepOf("HttpRequest", "store", "-", {})
    /\ UNCHANGED <<listeners, visible, activeButtons, cachedSettings,
                   lastButtonStates, tasks, inflight, shown, lastRun, pollVars>>

\* res.writeHead(status) and res.end() of a request that does nothing else
Respond(method, url, status) ==
    /\ httpLog' = [req |-> method \o " " \o url, status |-> status,
                   threw |-> {}, events |-> <<"writeHead">>]
    /\ step' = StepOf("HttpRequest", "store", "-", {})
    /\ UNCHANGED <<currentState, listeners, visible, activeButtons, cachedSettings,
                   lastButtonStates, tasks, inflight, shown, lastRun, pollVars>>

\* the request handler of http.createServer, for a request whose body has
\* arrived in full
HttpRequest(method, url, body, throwers) ==
    IF method = "OPTIONS"
    THEN throwers = {} /\ Respond(method, url, 204)
    ELSE IF method = "POST" /\ url = "/state"
    THEN IF JSON_parse(body) # None
         THEN PostState(Get(JSON_parse(body)), throwers)
         ELSE throwers = {} /\ Respond(method, url, 400)
    ELSE throwers = {} /\ Respond(method, url, 404)


-----------------------------------------------------------------------------
(* Tab button handlers (tab-button.ts 117-172) *)

\* onWillAppear from `if (activeButtons.size === 0)` to `await setImage`
TabRegister(i, s) ==
    LET call == [kind |-> "tab", id |-> i, img |-> createTabImage(s.tabName, FALSE)]
    IN  /\ IF activeButtons["tab"] = {} THEN addStateListener("tab")
           ELSE UNCHANGED listeners
        /\ activeButtons' = [activeButtons EXCEPT !["tab"] = @ \cup {i}]
        /\ cachedSettings' = [cachedSettings EXCEPT !["tab"][i] = Some(s)]
        /\ shown' = ShownAfter({call})
        /\ Touch("tab")
        /\ step' = StepOf("TabRegister", "tab", i, {call})

\* onWillAppear, first stretch: defaults, then `await setSettings` when a
\* default was filled in, otherwise straight on to the registration
TabOnWillAppear(i, s) ==
    /\ i \notin visible["tab"]
    /\ visible' = [visible EXCEPT !["tab"] = @ \cup {i}]
    /\ IF TabNeedsUpdate(s)
       THEN /\ Cardinality(tasks) < MaxTasks
            /\ tasks' = tasks \cup {[kind |-> "tab", id |-> i,
                                     settings |-> TabDefaults(s), pc |-> "setSettings"]}
            /\ step' = StepOf("TabOnWillAppear", "tab", i, {})
            /\ UNCHANGED <<listeners, activeButtons, cachedSettings, shown, lastRun>>
       ELSE /\ Cardinality(tasks) < MaxTasks
            /\ tasks' = tasks \cup {[kind |-> "tab", id |-> i,
                                     settings |-> TabDefaults(s), pc |-> "setImage"]}
            /\ TabRegister(i, TabDefaults(s))
    /\ UNCHANGED <<currentState, httpLog, lastButtonStates, inflight, pollVars>>

\* onWillAppear resumed after `await setSettings`
TabAfterSetSettings(t) ==
    /\ t \in tasks /\ t.kind = "tab" /\ t.pc = "setSettings"
    /\ tasks' = (tasks \ {t}) \cup {[t EXCEPT !.pc = "setImage"]}
    /\ TabRegister(t.id, t.settings)
    /\ UNCHANGED <<currentState, httpLog, visible, lastButtonStates, inflight, pollVars>>

\* a run of updateTabButtons(getState()) started by a handler
TabUpdate(op, i, changed) ==
    LET calls == TabCallsOn(currentState, activeButtons'["tab"],
                            cachedSettings'["tab"], lastButtonStates'["tab"])
    IN  /\ Cardinality(inflight \cup calls) <= MaxInflight
        /\ inflight' = inflight \cup calls
        /\ shown' = ShownAfter(calls)
        /\ RunNow("tab", currentState, changed, calls)
        /\ step' = StepOf(op, "tab", i, calls)

\* onWillAppear resumed after `await setImage`: updateTabButtons(getState())
TabAfterSetImage(t) ==
    /\ t \in tasks /\ t.kind = "tab" /\ t.pc = "setImage"
    /\ tasks' = tasks \ {t}
    /\ UNCHANGED <<activeButtons, cachedSettings, lastButtonStates>>
    /\ TabUpdate("TabAfterSetImage", t.id, FALSE)
    /\ UNCHANGED <<storeVars, visible, pollVars>>

TabOnWillDisappear(i) ==
    /\ i \in visible["tab"]
    /\ visible' = [visible EXCEPT !["tab"] = @ \ {i}]
    /\ activeButtons' = [activeButtons EXCEPT !["tab"] = @ \ {i}]
    /\ cachedSettings' = [cachedSettings EXCEPT !["tab"][i] = None]
    /\ lastButtonStates' = [lastButtonStates EXCEPT !["tab"][i] = None]
    /\ IF activeButtons'["tab"] = {} THEN removeStateListener("tab")
       ELSE UNCHANGED listeners
    /\ Touch("tab")
    /\ shown' = ShownWithout("tab", i)
    /\ step' = StepOf("TabOnWillDisappear", "tab", i, {})
    /\ UNCHANGED <<currentState, httpLog, tasks, inflight, pollVars>>

TabOnDidReceiveSettings(i, s) ==
    /\ i \in visible["tab"]
    /\ cachedSettings' = IF i \in activeButtons["tab"]
                         THEN [cachedSettings EXCEPT !["tab"][i] = Some(s)]
                         ELSE cachedSettings
    /\ lastButtonStates' = [lastButtonStates EXCEPT !["tab"][i] = None]
    /\ UNCHANGED activeButtons
    /\ TabUpdate("TabOnDidReceiveSettings", i, TRUE)
    /\ UNCHANGED <<storeVars, visible, tasks, pollVars>>

\* onKeyDown: sendKey(settings.keyToPress || "escape") in a try block whose
\* catch only logs; `s`: the settings of the event, `ok`: whether sendKey
\* succeeds
TabOnKeyDown(i, s, ok) ==
    LET keyToPress == IF s.keyToPress # "" THEN s.keyToPress ELSE "escape"
    IN  /\ i \in visible["tab"]
        /\ step' = KeyStepOf("TabOnKeyDown", "tab", i, {},
                             <<[key |-> keyToPress, ok |-> ok]>>)
        /\ UNCHANGED <<storeVars, visible, activeButtons, cachedSettings,
                       lastButtonStates, tasks, inflight, shown, lastRun, pollVars>>

\* a setImage call of a render resolves: lastButtonStates.set(id, ...)
SetImageResolved(c) ==
    /\ c \in inflight
    /\ inflight' = inflight \ {c}
    /\ lastButtonStates' = [lastButtonStates EXCEPT ![c.kind][c.id] = Some(c.fp)]
    /\ RunResolved(c)
    /\ step' = StepOf("SetImageResolved", c.kind, c.id, {})
    /\ UNCHANGED <<storeVars, visible, activeButtons, cachedSettings, tasks, shown,
                   pollVars>>

-----------------------------------------------------------------------------
(* Push meter handlers (health-meter, prayer-meter.ts, special-attack-meter) *)

\* onWillAppear, first stretch: defaults, then `await setSettings`
MeterOnWillAppear(k, i, s) ==
    /\ k \in MeterKinds
    /\ i \notin visible[k]
    /\ Cardinality(tasks) < MaxTasks
    /\ visible' = [visible EXCEPT ![k] = @ \cup {i}]
    /\ tasks' = tasks \cup {[kind |-> k, id |-> i, settings |-> MeterDefaults(s),
                             pc |-> "setSettings"]}
    /\ step' = StepOf("MeterOnWillAppear", k, i, {})
    /\ UNCHANGED <<storeVars, activeButtons, cachedSettings, lastButtonStates,
                   inflight, shown, lastRun, pollVars>>

\* the calls of update<Kind>Meters(getState()) once the handler has changed
\* the maps
MeterUpdate(op, k, i) ==
    LET calls == {[kind |-> k, id |-> j,
                   img |-> MeterImage(k, currentState,
                                      IF cachedSettings'[k][j] = None THEN EmptySettings
                                      ELSE Get(cachedSettings'[k][j]))] :
                  j \in activeButtons'[k]}
    IN  /\ shown' = ShownAfter(calls)
        /\ step' = StepOf(op, k, i, calls)

\* onWillAppear resumed after `await setSettings`: register, render
MeterAfterSetSettings(t) ==
    /\ t \in tasks /\ t.kind \in MeterKinds /\ t.pc = "setSettings"
    /\ tasks' = tasks \ {t}
    /\ IF activeButtons[t.kind] = {} THEN addStateListener(t.kind)
       ELSE UNCHANGED listeners
    /\ activeButtons' = [activeButtons EXCEPT ![t.kind] = @ \cup {t.id}]
    /\ cachedSettings' = [cachedSettings EXCEPT ![t.kind][t.id] = Some(t.settings)]
    /\ MeterUpdate("MeterAfterSetSettings", t.kind, t.id)
    /\ UNCHANGED <<currentState, httpLog, visible, lastButtonStates, inflight,
                   lastRun, pollVars>>

MeterOnWillDisappear(k, i) ==
    /\ k \in MeterKinds
    /\ i \in visible[k]
    /\ visible' = [visible EXCEPT ![k] = @ \ {i}]
    /\ activeButtons' = [activeButtons EXCEPT ![k] = @ \ {i}]
    /\ cachedSettings' = [cachedSettings EXCEPT ![k][i] = None]
    /\ IF activeButtons'[k] = {} THEN removeStateListener(k)
       ELSE UNCHANGED listeners
    /\ shown' = ShownWithout(k, i)
    /\ step' = StepOf("MeterOnWillDisappear", k, i, {})
    /\ UNCHANGED <<currentState, httpLog, lastButtonStates, tasks, inflight,
                   lastRun, pollVars>>

\* onDidReceiveSettings: cachedSettings.set, one update<Kind>Meters run
MeterReceiveSettings(k, i, s) ==
    /\ k \in MeterKinds
    /\ cachedSettings' = [cachedSettings EXCEPT ![k][i] = Some(s)]
    /\ UNCHANGED activeButtons
    /\ MeterUpdate("MeterOnDidReceiveSettings", k, i)
    /\ UNCHANGED <<storeVars, visible, lastButtonStates, tasks, inflight, lastRun,
                   pollVars>>

\* the notification for a button the host shows
MeterOnDidReceiveSettings(k, i, s) == i \in visible[k] /\ MeterReceiveSettings(k, i, s)

-----------------------------------------------------------------------------
(* Prayer button (prayer-button.ts) *)

\* the outcome of `await fetch(...)` and `await response.json()`: a failure
\* (connection error, timeout, non-OK status, invalid JSON) or the parsed
\* body: player present or not, the prayers flagged true, and the meter
\* fields the run meter reads
FetchFailed == [ok |-> FALSE, player |-> FALSE, prayers |-> {},
                runEnergy |-> Undef, runEnabled |-> FALSE]

PRAYER_ICONS ==
    [thick_skin |-> "Thick_Skin.png", burst_of_strength |-> "Burst_of_Strength.png",
     clarity_of_thought |-> "Clarity_of_Thought.png", sharp_eye |-> "Sharp_Eye.png",
     mystic_will |-> "Mystic_Will.png", rock_skin |-> "Rock_Skin.png",
     superhuman_strength |-> "Superhuman_Strength.png",
     improved_reflexes |-> "Improved_Reflexes.png", rapid_restore |-> "Rapid_Restore.png",
     rapid_heal |-> "Rapid_Heal.png", protect_item |-> "Protect_Item.png",
     hawk_eye |-> "Hawk_Eye.png", mystic_lore |-> "Mystic_Lore.png",
     steel_skin |-> "Steel_Skin.png", ultimate_strength |-> "Ultimate_Strength.png",
     incredible_reflexes |-> "Incredible_Reflexes.png",
     protect_from_magic |-> "Protect_from_Magic.png",
     protect_from_missiles |-> "Protect_from_Missiles.png",
     protect_from_melee |-> "Protect_from_Melee.png", eagle_eye |-> "Eagle_Eye.png",
     mystic_might |-> "Mystic_Might.png", retribution |-> "Retribution.png",
     redemption |-> "Redemption.png", smite |-> "Smite.png", preserve |-> "Preserve.png",
     chivalry |-> "Chivalry.png", deadeye |-> "Deadeye.png",
     mystic_vigour |-> "Mystic_Vigour.png", piety |-> "Piety.png",
     rigour |-> "Rigour.png", augury |-> "Augury.png"]

\* createPrayerImage: deactivated background always, glow when active, icon
createPrayerImage(prayerName, isActive) ==
    [kind |-> "prayerbutton",
     background |-> "Deactivated_prayer.png",
     glow |-> isActive,
     icon |-> IF ToLower(prayerName) \in DOMAIN PRAYER_ICONS
              THEN PRAYER_ICONS[ToLower(prayerName)] ELSE "Protect_from_Melee.png"]

\* the defaults onWillAppear fills in (prayer-button.ts 137-148)
PrayerDefaults(s) ==
    [serverUrl |-> IF s.serverUrl = "" THEN "http://localhost:8085/state" ELSE s.serverUrl,
     pollInterval |-> IF s.pollInterval = 0 THEN 200 ELSE s.pollInterval,
     prayerName |-> IF s.prayerName = "" THEN "protect_from_melee" ELSE s.prayerName]

PrayerNeedsUpdate(s) == s.serverUrl = "" \/ s.pollInterval = 0 \/ s.prayerName = ""

\* (buttonData.settings.prayerName || 'protect_from_melee').toLowerCase()
PrayerNameOf(s) == ToLower(IF s.prayerName = "" THEN "protect_from_melee" ELSE s.prayerName)

\* the isActive a poll result gives a button: false when the fetch failed or
\* player is absent, data.prayers?.[prayerName] === true otherwise
PrayerIsActive(data, s) ==
    IF ~data.ok \/ ~data.player THEN FALSE ELSE PrayerNameOf(s) \in data.prayers

\* the setImage calls updatePrayerButtons issues once its fetch has settled
PrayerCallsOn(data, act, cs, lbs) ==
    {[kind |-> "prayerbutton", id |-> i,
      img |-> createPrayerImage(PrayerNameOf(Get(cs[i])), PrayerIsActive(data, Get(cs[i]))),
      fp |-> [isActive |-> PrayerIsActive(data, Get(cs[i])),
              name |-> PrayerNameOf(Get(cs[i]))]] :
     i \in {j \in act : FpDiffers(lbs[j], PrayerIsActive(data, Get(cs[j])),
                                  PrayerNameOf(Get(cs[j])))}}

\* n calls of update<Kind>() in one synchronous stretch, with the maps as the
\* handler leaves them: each returns at once when no button is registered,
\* and suspends at its fetch otherwise
StartFetches(k, n, changed) ==
    IF activeButtons'[k] = {} \/ n = 0
    THEN /\ UNCHANGED fetches
         /\ RunsStarted(k, 0, changed)
    ELSE /\ fetches[k] + n <= MaxFetches
         /\ fetches' = [fetches EXCEPT ![k] = @ + n]
         /\ RunsStarted(k, n, changed)

\* the calls of update<Kind>() that `startPolling(interval)` adds: none when
\* a timer exists, otherwise the timer is created and one update started
StartPollingCalls(k) == IF pollingInterval[k] # 0 THEN 0 ELSE 1

startPolling(k, interval) ==
    pollingInterval' = IF pollingInterval[k] # 0 THEN pollingInterval
                       ELSE [pollingInterval EXCEPT ![k] = interval]

stopPolling(k) == pollingInterval' = [pollingInterval EXCEPT ![k] = 0]

\* onWillAppear from `cachedServerUrl = ...` to `await setImage`
PrayerRegister(i, s, resumed) ==
    LET call == [kind |-> "prayerbutton", id |-> i,
                 img |-> createPrayerImage(s.prayerName, FALSE)]
    IN  /\ activeButtons' = [activeButtons EXCEPT !["prayerbutton"] = @ \cup {i}]
        /\ cachedSettings' = [cachedSettings EXCEPT !["prayerbutton"][i] = Some(s)]
        /\ activeButtonCount' = [activeButtonCount EXCEPT !["prayerbutton"] = @ + 1]
        /\ tasks' = (tasks \ resumed)
                    \cup {[kind |-> "prayerbutton", id |-> i, settings |-> s,
                           pc |-> "setImage",
                           isFirstButton |-> activeButtonCount["prayerbutton"] = 0]}
        /\ shown' = ShownAfter({call})
        /\ Touch("prayerbutton")
        /\ step' = StepOf("PrayerRegister", "prayerbutton", i, {call})

\* onWillAppear, first stretch
PrayerOnWillAppear(i, s) ==
    /\ i \notin visible["prayerbutton"]
    /\ Cardinality(tasks) < MaxTasks
    /\ visible' = [visible EXCEPT !["prayerbutton"] = @ \cup {i}]
    /\ IF PrayerNeedsUpdate(s)
       THEN /\ tasks' = tasks \cup {[kind |-> "prayerbutton", id |-> i,
                                     settings |-> PrayerDefaults(s),
                                     pc |-> "setSettings", isFirstButton |-> FALSE]}
            /\ step' = StepOf("PrayerOnWillAppear", "prayerbutton", i, {})
            /\ UNCHANGED <<activeButtons, cachedSettings, activeButtonCount, shown,
                           lastRun>>
       ELSE PrayerRegister(i, PrayerDefaults(s), {})
    /\ UNCHANGED <<storeVars, sideVars, atJson, cachedImages, stale, lastButtonStates, inflight, pollingInterval, fetches,
                   owed>>

\* onWillAppear resumed after `await setSettings`
PrayerAfterSetSettings(t) ==
    /\ t \in tasks /\ t.kind = "prayerbutton" /\ t.pc = "setSettings"
    /\ PrayerRegister(t.id, t.settings, {t})
    /\ UNCHANGED <<storeVars, sideVars, atJson, cachedImages, stale, visible, lastButtonStates, inflight, pollingInterval,
                   fetches, owed>>

\* onWillAppear resumed after `await setImage`: startPolling when it saw the
\* count at 0, updatePrayerButtons otherwise
PrayerAfterSetImage(t) ==
    /\ t \in tasks /\ t.kind = "prayerbutton" /\ t.pc = "setImage"
    /\ tasks' = tasks \ {t}
    /\ UNCHANGED <<activeButtons, cachedSettings>>
    /\ IF t.isFirstButton
       THEN /\ startPolling("prayerbutton", t.settings.pollInterval)
            /\ StartFetches("prayerbutton", StartPollingCalls("prayerbutton"), FALSE)
       ELSE /\ UNCHANGED pollingInterval
            /\ StartFetches("prayerbutton", 1, FALSE)
    /\ step' = StepOf("PrayerAfterSetImage", "prayerbutton", t.id, {})
    /\ UNCHANGED <<storeVars, sideVars, atJson, cachedImages, stale, visible, lastButtonStates, activeButtonCount, inflight,
                   shown, owed>>

PrayerOnWillDisappear(i) ==
    /\ i \in visible["prayerbutton"]
    /\ visible' = [visible EXCEPT !["prayerbutton"] = @ \ {i}]
    /\ activeButtons' = [activeButtons EXCEPT !["prayerbutton"] = @ \ {i}]
    /\ cachedSettings' = [cachedSettings EXCEPT !["prayerbutton"][i] = None]
    /\ activeButtonCount' = [activeButtonCount EXCEPT !["prayerbutton"] = @ - 1]
    /\ IF activeButtonCount'["prayerbutton"] = 0 THEN stopPolling("prayerbutton")
       ELSE UNCHANGED pollingInterval
    /\ shown' = ShownWithout("prayerbutton", i)
    /\ owed' = owed \ {i}
    /\ Touch("prayerbutton")
    /\ step' = StepOf("PrayerOnWillDisappear", "prayerbutton", i, {})
    /\ UNCHANGED <<storeVars, sideVars, atJson, cachedImages, stale, lastButtonStates, tasks, inflight, fetches>>

\* onDidReceiveSettings: store the settings of a registered button, one
\* updatePrayerButtons(), then a restart of the timer when the settings hold
\* a pollInterval and a timer exists (stopPolling, startPolling, which
\* starts one more update)
PrayerOnDidReceiveSettings(i, s) ==
    LET restart == s.pollInterval # 0 /\ pollingInterval["prayerbutton"] # 0
    IN  /\ i \in visible["prayerbutton"]
        /\ cachedSettings' = IF i \in activeButtons["prayerbutton"]
                             THEN [cachedSettings EXCEPT !["prayerbutton"][i] = Some(s)]
                             ELSE cachedSettings
        /\ UNCHANGED activeButtons
        /\ pollingInterval' = IF restart
                              THEN [pollingInterval EXCEPT !["prayerbutton"] = s.pollInterval]
                              ELSE pollingInterval
        /\ StartFetches("prayerbutton", IF restart THEN 2 ELSE 1, TRUE)
        /\ owed' = IF i \in activeButtons["prayerbutton"] THEN owed \cup {i} ELSE owed
        /\ step' = StepOf("PrayerOnDidReceiveSettings", "prayerbutton", i, {})
        /\ UNCHANGED <<storeVars, sideVars, atJson, cachedImages, stale, visible, lastButtonStates, activeButtonCount, tasks,
                       inflight, shown>>

\* the setInterval callback of a polling kind
PollTick(k) ==
    /\ pollingInterval[k] # 0
    /\ UNCHANGED activeButtons
    /\ StartFetches(k, 1, FALSE)
    /\ step' = StepOf("PollTick", k, "-", {})
    /\ UNCHANGED <<storeVars, sideVars, atJson, cachedImages, stale, visible, cachedSettings, lastButtonStates,
                   activeButtonCount, pollingInterval, tasks, inflight, shown, owed>>

\* updatePrayerButtons resumed with the outcome `data` of its fetch and
\* response.json(): the try block renders it, the catch block a failure
PrayerSettled(data) ==
    LET calls == PrayerCallsOn(data, activeButtons["prayerbutton"],
                               cachedSettings["prayerbutton"],
                               lastButtonStates["prayerbutton"])
    IN  /\ fetches["prayerbutton"] > 0
        /\ Cardinality(inflight \cup calls) <= MaxInflight
        /\ fetches' = [fetches EXCEPT !["prayerbutton"] = @ - 1]
        /\ inflight' = inflight \cup calls
        /\ shown' = ShownAfter(calls)
        /\ owed' = owed \ {c.id : c \in calls}
        /\ RunNow("prayerbutton", data, FALSE, calls)
        /\ step' = StepOf("PrayerFetchDone", "prayerbutton", "-", calls)
        /\ UNCHANGED <<storeVars, sideVars, cachedImages, stale, visible, activeButtons,
                       cachedSettings, lastButtonStates, activeButtonCount,
                       pollingInterval, tasks>>

\* updatePrayerButtons resumed after its fetch settled with `data`, the two
\* awaits of the poll taken as one
PrayerFetchDone(data) == PrayerSettled(data) /\ UNCHANGED atJson

\* `await fetch` of a poll resolves with an OK response: clearTimeout, then
\* the poll suspends at `await response.json()`
FetchResolved(k) ==
    /\ fetches[k] - atJson[k] > 0
    /\ atJson' = [atJson EXCEPT ![k] = @ + 1]
    /\ step' = StepOf("FetchResolved", k, "-", {})
    /\ UNCHANGED <<storeVars, visible, activeButtons, cachedSettings,
                   lastButtonStates, activeButtonCount, pollingInterval, tasks,
                   inflight, fetches, shown, lastRun, owed, stale, cachedImages, sideVars>>

\* `await fetch` of a poll rejects (connection error, abort by the timeout
\* timer) or resolves with a status that is not OK: the catch block
PrayerFetchRejected ==
    /\ fetches["prayerbutton"] - atJson["prayerbutton"] > 0
    /\ PrayerSettled(FetchFailed)
    /\ UNCHANGED atJson

\* `await response.json()` of a poll settles: with the parsed body, or with
\* a failure when the body is not JSON
PrayerJsonSettled(data) ==
    /\ atJson["prayerbutton"] > 0
    /\ PrayerSettled(data)
    /\ atJson' = [atJson EXCEPT !["prayerbutton"] = @ - 1]

\* the timeout timers that are armed: setTimeout at the start of each poll,
\* clearTimeout once its fetch has resolved or in its catch block
TimersArmed(k) == fetches[k] - atJson[k]

\* a setImage call of updatePrayerButtons rejects while the run that issued
\* it in its try block runs alone and no call of it has rejected before:
\* Promise.all rejects and the catch block renders the registered buttons
\* inactive, those whose fingerprint is not already inactive
SetImageRejected(c) ==
    LET calls == PrayerCallsOn(FetchFailed, activeButtons["prayerbutton"],
                               cachedSettings["prayerbutton"],
                               lastButtonStates["prayerbutton"])
    IN  /\ c \in Pending("prayerbutton")
        /\ lastRun["prayerbutton"].st = "running"
        /\ Get(lastRun["prayerbutton"].data).ok
        /\ Cardinality((inflight \ {c}) \cup calls) <= MaxInflight
        /\ inflight' = (inflight \ {c}) \cup calls
        /\ shown' = ShownAfter(calls)
        /\ owed' = owed \ {x.id : x \in calls}
        /\ lastRun' = [lastRun EXCEPT !["prayerbutton"].st = "caught"]
        /\ step' = StepOf("SetImageRejected", "prayerbutton", c.id, calls)
        /\ UNCHANGED <<storeVars, sideVars, atJson, cachedImages, stale, visible, activeButtons, cachedSettings,
                       lastButtonStates, activeButtonCount, pollingInterval, tasks,
                       fetches>>

-----------------------------------------------------------------------------
(* Run meter (run-meter, the polling meter) *)

\* the defaults onWillAppear fills in
RunDefaults(s) ==
    [serverUrl |-> IF s.serverUrl = "" THEN "http://localhost:8085/state"
                   ELSE s.serverUrl,
     pollInterval |-> IF s.pollInterval = 0 THEN 200 ELSE s.pollInterval]

\* onWillAppear, first stretch: defaults, then `await setSettings`
RunOnWillAppear(i, s) ==
    /\ i \notin visible["run"]
    /\ Cardinality(tasks) < MaxTasks
    /\ visible' = [visible EXCEPT !["run"] = @ \cup {i}]
    /\ tasks' = tasks \cup {[kind |-> "run", id |-> i, settings |-> RunDefaults(s),
                             pc |-> "setSettings"]}
    /\ step' = StepOf("RunOnWillAppear", "run", i, {})
    /\ UNCHANGED <<storeVars, sideVars, atJson, cachedImages, activeButtons, cachedSettings, lastButtonStates,
                   inflight, shown, lastRun, pollVars>>

\* onWillAppear resumed after `await setSettings`: register, then
\* startPolling when the count was 0, updateRunMeters otherwise
RunAfterSetSettings(t) ==
    /\ t \in tasks /\ t.kind = "run" /\ t.pc = "setSettings"
    /\ tasks' = tasks \ {t}
    /\ activeButtons' = [activeButtons EXCEPT !["run"] = @ \cup {t.id}]
    /\ cachedSettings' = [cachedSettings EXCEPT !["run"][t.id] = Some(t.settings)]
    /\ activeButtonCount' = [activeButtonCount EXCEPT !["run"] = @ + 1]
    /\ IF activeButtonCount["run"] = 0
       THEN /\ startPolling("run", t.settings.pollInterval)
            /\ StartFetches("run", StartPollingCalls("run"), TRUE)
       ELSE /\ UNCHANGED pollingInterval
            /\ StartFetches("run", 1, TRUE)
    /\ step' = StepOf("RunAfterSetSettings", "run", t.id, {})
    /\ UNCHANGED <<storeVars, sideVars, atJson, cachedImages, visible, lastButtonStates, inflight, shown, owed,
                   stale>>

RunOnWillDisappear(i) ==
    /\ i \in visible["run"]
    /\ visible' = [visible EXCEPT !["run"] = @ \ {i}]
    /\ activeButtons' = [activeButtons EXCEPT !["run"] = @ \ {i}]
    /\ cachedSettings' = [cachedSettings EXCEPT !["run"][i] = None]
    /\ activeButtonCount' = [activeButtonCount EXCEPT !["run"] = @ - 1]
    /\ IF activeButtonCount'["run"] = 0 THEN stopPolling("run")
       ELSE UNCHANGED pollingInterval
    /\ shown' = ShownWithout("run", i)
    /\ step' = StepOf("RunOnWillDisappear", "run", i, {})
    /\ UNCHANGED <<storeVars, sideVars, atJson, cachedImages, lastButtonStates, tasks, inflight, fetches, lastRun,
                   owed, stale>>

\* onDidReceiveSettings: store the settings, one updateRunMeters(), then a
\* restart of the timer when the settings hold a pollInterval and a timer
\* exists (stopPolling, startPolling, which starts one more update)
RunOnDidReceiveSettings(i, s) ==
    LET restart == s.pollInterval # 0 /\ pollingInterval["run"] # 0
    IN  /\ i \in visible["run"]
        /\ cachedSettings' = [cachedSettings EXCEPT !["run"][i] = Some(s)]
        /\ UNCHANGED activeButtons
        /\ pollingInterval' = IF restart
                              THEN [pollingInterval EXCEPT !["run"] = s.pollInterval]
                              ELSE pollingInterval
        /\ StartFetches("run", IF restart THEN 2 ELSE 1, TRUE)
        /\ step' = StepOf("RunOnDidReceiveSettings", "run", i, {})
        /\ UNCHANGED <<storeVars, sideVars, atJson, cachedImages, visible, lastButtonStates, activeButtonCount, tasks,
                       inflight, shown, owed, stale>>

\* the setImage calls of updateRunMeters once its fetch has settled with
\* `data`: one per registered button when the fetch succeeded, none in the
\* catch block
RunCalls(data) ==
    IF data.ok
    THEN {[kind |-> "run", id |-> i, img |-> createRunMeterImage(data)] :
          i \in activeButtons["run"]}
    ELSE {}

\* updateRunMeters resumed after its fetch settled with `data`.  The polls
\* that no later poll has overtaken are pending in the order they started;
\* n = 0: a poll that was overtaken settles; n > 0: the n-th oldest of the
\* others settles, and when it renders it overtakes the n - 1 before it
RunFetchDone(data, n) ==
    /\ fetches["run"] > 0
    /\ IF n = 0 THEN stale > 0 ELSE n <= fetches["run"] - stale
    /\ fetches' = [fetches EXCEPT !["run"] = @ - 1]
    /\ stale' = IF n = 0 THEN stale - 1
                ELSE IF RunCalls(data) = {} THEN stale
                ELSE stale + n - 1
    /\ shown' = ShownAfter(RunCalls(data))
    /\ step' = StepOf("RunFetchDone", "run", "-", RunCalls(data))
    /\ UNCHANGED <<storeVars, sideVars, atJson, cachedImages, visible, activeButtons, cachedSettings,
                   lastButtonStates, activeButtonCount, pollingInterval, tasks,
                   inflight, lastRun, owed>>

-----------------------------------------------------------------------------
(* Map button (map-button.ts) *)

\* getNormalImage(), getHighlightImage(): the data URI of the asset
MapNormalImage == [kind |-> "map", file |-> "map_orb.png"]
MapHighlightImage == [kind |-> "map", file |-> "map_orb_highlight.png"]

\* hardware.keyboard.sendKey(["ctrl", "m"]) and its outcome
CtrlM(ok) == [key |-> <<"ctrl", "m">>, ok |-> ok]

\* onWillAppear: register, setImage(normal); nothing follows the await
MapOnWillAppear(i) ==
    LET call == [kind |-> "map", id |-> i, img |-> MapNormalImage]
    IN  /\ i \notin visible["map"]
        /\ visible' = [visible EXCEPT !["map"] = @ \cup {i}]
        /\ activeButtons' = [activeButtons EXCEPT !["map"] = @ \cup {i}]
        /\ shown' = ShownAfter({call})
        /\ step' = StepOf("MapOnWillAppear", "map", i, {call})
        /\ UNCHANGED <<storeVars, cachedSettings, lastButtonStates, tasks, inflight,
                       lastRun, pollVars>>

\* the class has no onWillDisappear: the host removes the key, the module
\* keeps its entry
MapOnWillDisappear(i) ==
    /\ i \in visible["map"]
    /\ visible' = [visible EXCEPT !["map"] = @ \ {i}]
    /\ shown' = ShownWithout("map", i)
    /\ step' = StepOf("MapOnWillDisappear", "map", i, {})
    /\ UNCHANGED <<storeVars, activeButtons, cachedSettings, lastButtonStates, tasks,
                   inflight, lastRun, pollVars>>

\* a key-down handler that also sends the key
MapOnKeyDown_send(i) ==
    LET call == [kind |-> "map", id |-> i, img |-> MapHighlightImage]
    IN  /\ i \in visible["map"]
        /\ shown' = ShownAfter({call})
        /\ step' = KeyStepOf("MapOnKeyDown", "map", i, {call}, <<CtrlM(TRUE)>>)
        /\ UNCHANGED <<storeVars, visible, activeButtons, cachedSettings,
                       lastButtonStates, tasks, inflight, lastRun, pollVars>>

\* onKeyDown: setImage(highlight); nothing follows the await
MapOnKeyDown(i) ==
    LET call == [kind |-> "map", id |-> i, img |-> MapHighlightImage]
    IN  /\ i \in visible["map"]
        /\ shown' = ShownAfter({call})
        /\ step' = StepOf("MapOnKeyDown", "map", i, {call})
        /\ UNCHANGED <<storeVars, visible, activeButtons, cachedSettings,
                       lastButtonStates, tasks, inflight, lastRun, pollVars>>

\* onKeyUp up to `await setImage(normalImage)`
MapOnKeyUp(i) ==
    LET call == [kind |-> "map", id |-> i, img |-> MapNormalImage]
    IN  /\ i \in visible["map"]
        /\ Cardinality(tasks) < MaxTasks
        /\ tasks' = tasks \cup {[kind |-> "map", id |-> i, pc |-> "keyUp"]}
        /\ shown' = ShownAfter({call})
        /\ step' = StepOf("MapOnKeyUp", "map", i, {call})
        /\ UNCHANGED <<storeVars, visible, activeButtons, cachedSettings,
                       lastButtonStates, inflight, lastRun, pollVars>>

\* onKeyUp resumed after `await setImage`: sendKey in a try block whose catch
\* only logs; `ok`: whether sendKey succeeds
MapKeyUpSend(t, ok) ==
    /\ t \in tasks /\ t.kind = "map" /\ t.pc = "keyUp"
    /\ tasks' = tasks \ {t}
    /\ step' = KeyStepOf("MapKeyUpSend", "map", t.id, {}, <<CtrlM(ok)>>)
    /\ UNCHANGED <<storeVars, visible, activeButtons, cachedSettings,
                   lastButtonStates, inflight, shown, lastRun, pollVars>>

-----------------------------------------------------------------------------
(* The polling tab button, "tab-button (not working).ts": its module
   variables are the fields of `legacy`. `timers` counts the interval timers
   that setInterval created and clearInterval has not cleared; `appear` and
   `settings` hold, per button, the onWillAppear and onDidReceiveSettings
   handler suspended at an await; `run` is where the run of updateTabButtons
   that holds isUpdating is suspended. *)

\* `settings.pollInterval = 200` of onWillAppear
LegacyDefaultInterval == 200
\* the pollInterval settings of the property inspector, 0 for an absent one
LegacyIntervals == {0, LegacyDefaultInterval, 500}
\* startPolling(1000) after more than 5 consecutive errors
LegacyBackoffInterval == 1000
LegacyErrorLimit == 5

\* updateTabButtons() up to its first await
LegacyUpdate(h) ==
    IF h.isUpdating \/ h.activeButtons = {}
    THEN h
    ELSE [h EXCEPT !.isUpdating = TRUE, !.run = "fetch"]

\* startPolling(interval) that creates a timer whatever pollingInterval holds
LegacyStartPolling_unguarded(h, interval) ==
    LegacyUpdate([h EXCEPT !.pollingInterval = interval, !.timers = @ + 1])

\* startPolling(interval)
LegacyStartPolling(h, interval) ==
    IF h.pollingInterval # 0
    THEN h
    ELSE LegacyUpdate([h EXCEPT !.pollingInterval = interval, !.timers = @ + 1])

\* stopPolling()
LegacyStopPolling(h) ==
    IF h.pollingInterval # 0
    THEN [h EXCEPT !.timers = @ - 1, !.pollingInterval = 0]
    ELSE h

LegacyBecomes(h, op, i) ==
    /\ legacy' = h
    /\ step' = StepOf(op, "legacy", i, {})
    /\ UNCHANGED <<appVars, server, currentPort, servers>>

\* onWillAppear up to `await ev.action.setSettings(settings)`, which it
\* reaches whatever the settings are
LegacyOnWillAppear(i) ==
    /\ i \notin legacy.visible
    /\ legacy.appear[i] = "none"
    /\ LegacyBecomes([legacy EXCEPT !.visible = @ \cup {i},
                                    !.appear[i] = "setSettings"],
                     "LegacyOnWillAppear", i)

\* onWillAppear resumed after setSettings: the button is registered and
\* counted, then the handler awaits setState, setTitle and the setImage calls
LegacyAfterSetSettings(i) ==
    /\ legacy.appear[i] = "setSettings"
    /\ LegacyBecomes([legacy EXCEPT !.activeButtons = @ \cup {i},
                                    !.activeButtonCount = @ + 1,
                                    !.appear[i] = "deviceCalls"],
                     "LegacyAfterSetSettings", i)

\* onWillAppear resumed after its last device call: startPolling when the
\* count is 1, updateTabButtons otherwise; `interval` is settings.pollInterval
\* after the defaults
LegacyAfterDeviceCalls(i, interval) ==
    /\ legacy.appear[i] = "deviceCalls"
    /\ interval # 0
    /\ LET h == [legacy EXCEPT !.appear[i] = "none"]
       IN LegacyBecomes(IF h.activeButtonCount = 1
                        THEN LegacyStartPolling(h, interval)
                        ELSE LegacyUpdate(h),
                        "LegacyAfterDeviceCalls", i)

\* onWillDisappear
LegacyOnWillDisappear(i) ==
    /\ i \in legacy.visible
    /\ LET h == [legacy EXCEPT !.visible = @ \ {i},
                               !.activeButtons = @ \ {i},
                               !.activeButtonCount = @ - 1]
       IN LegacyBecomes(IF h.activeButtonCount = 0 THEN LegacyStopPolling(h) ELSE h,
                        "LegacyOnWillDisappear", i)

\* onDidReceiveSettings up to `await ev.action.setTitle(tabTitle)`;
\* `interval` is settings.pollInterval
LegacyOnDidReceiveSettings(i, interval) ==
    /\ i \in legacy.visible
    /\ legacy.settings[i] = -1
    /\ LegacyBecomes([legacy EXCEPT !.settings[i] = interval],
                     "LegacyOnDidReceiveSettings", i)

\* onDidReceiveSettings resumed after its device calls: updateTabButtons,
\* then the timer is restarted when the settings name an interval and a
\* timer is set
LegacyAfterSetTitle(i) ==
    /\ legacy.settings[i] # -1
    /\ LET interval == legacy.settings[i]
           h == LegacyUpdate([legacy EXCEPT !.settings[i] = -1])
       IN LegacyBecomes(IF interval # 0 /\ h.pollingInterval # 0
                        THEN LegacyStartPolling(LegacyStopPolling(h), interval)
                        ELSE h,
                        "LegacyAfterSetTitle", i)

\* an interval timer fires
LegacyTick ==
    /\ legacy.timers > 0
    /\ LegacyBecomes(LegacyUpdate(legacy), "LegacyTick", "-")

\* the run of updateTabButtons resumes after getSettings, fetch and json:
\* "ok" clears consecutiveErrors, "failed" is the inner catch block, "thrown"
\* (getSettings rejected) the outer one, which ends the run. With no button
\* registered the loops over activeButtons await nothing.
LegacyFetchSettled(outcome) ==
    /\ legacy.run = "fetch"
    /\ outcome # "ok" => legacy.consecutiveErrors < MaxErrors
    /\ LET h == [legacy EXCEPT
                    !.consecutiveErrors = IF outcome = "ok" THEN 0 ELSE @ + 1,
                    !.run = IF outcome = "thrown" THEN "none" ELSE outcome,
                    !.isUpdating = outcome # "thrown"]
       IN LegacyBecomes(h, "LegacyFetchSettled", "-")

\* the run resumes after its setState calls: after a failure the timer is
\* restarted at 1000 ms when more than 5 errors came in a row and a timer is
\* set; `finally` clears isUpdating
LegacyFinish ==
    /\ legacy.run \in {"ok", "failed"}
    /\ LET restart == /\ legacy.run = "failed"
                      /\ legacy.consecutiveErrors > LegacyErrorLimit
                      /\ legacy.pollingInterval # 0
           h == IF restart
                THEN LegacyStartPolling(LegacyStopPolling(legacy), LegacyBackoffInterval)
                ELSE legacy
       IN LegacyBecomes([h EXCEPT !.isUpdating = FALSE, !.run = "none"],
                        "LegacyFinish", "-")

NextLegacy ==
    \/ \E i \in Ids : LegacyOnWillAppear(i)
    \/ \E i \in Ids : LegacyAfterSetSettings(i)
    \/ \E i \in Ids : \E interval \in LegacyIntervals : LegacyAfterDeviceCalls(i, interval)
    \/ \E i \in Ids : LegacyOnWillDisappear(i)
    \/ \E i \in Ids : \E interval \in LegacyIntervals : LegacyOnDidReceiveSettings(i, interval)
    \/ \E i \in Ids : LegacyAfterSetTitle(i)
    \/ LegacyTick
    \/ \E outcome \in {"ok", "failed", "thrown"} : LegacyFetchSettled(outcome)
    \/ LegacyFinish

-----------------------------------------------------------------------------
(* The state server's life cycle: startServer, stopServer, the error event *)

\* `let currentPort = 8085`, the default of startServer's parameter
DefaultPort == 8085

\* the ports startServer is called with
ServerPorts == {DefaultPort, DefaultPort + 1}

\* the module variables of the server, as one value
ServerState == [server |-> server, currentPort |-> currentPort, servers |-> servers]

\* server.listen(port) binds at once: a port one of this process's servers
\* listens on is in use, any other port is in use or not as the machine has
\* it. "bound" is a listening server, "inuse" one whose bind failed and whose
\* 'error' event is still to be emitted.
BindOutcomes(svs, port) ==
    IF \E n \in 1..Len(svs) : svs[n].st = "bound" /\ svs[n].port = port
    THEN {"inuse"}
    ELSE {"bound", "inuse"}

\* startServer(port) on the module variables h; `st` is how its bind ends
startServer(port, st, h) ==
    IF h.server # 0
    THEN h
    ELSE [server |-> Len(h.servers) + 1,
          currentPort |-> port,
          servers |-> Append(h.servers, [port |-> port, st |-> st])]

\* stopServer() on the module variables h: close() ends a listening server
\* and leaves the pending 'error' event of a failed bind in place
stopServer(h) ==
    IF h.server # 0
    THEN [h EXCEPT !.servers[h.server].st = IF @ = "bound" THEN "closed" ELSE @,
                   !.server = 0]
    ELSE h

getServerPort == currentPort

ServerBecomes(h, op) ==
    /\ server' = h.server
    /\ currentPort' = h.currentPort
    /\ servers' = h.servers
    /\ step' = StepOf(op, "server", "-", {})
    /\ UNCHANGED <<appVars, legacy>>

\* a call of startServer(port)
StartServer(port, st) ==
    /\ server = 0 => Len(servers) < MaxServers
    /\ st \in BindOutcomes(servers, port)
    /\ ServerBecomes(startServer(port, st, ServerState), "startServer")

\* a call of stopServer()
StopServer == ServerBecomes(stopServer(ServerState), "stopServer")

\* the 'error' event of server n with code EADDRINUSE: `server = null`, then
\* startServer(port + 1) with the port of the call that created server n
ServerError(n, st) ==
    /\ n \in 1..Len(servers) /\ servers[n].st = "inuse"
    /\ Len(servers) < MaxServers
    /\ LET failed == [ServerState EXCEPT !.servers[n].st = "failed", !.server = 0]
       IN /\ st \in BindOutcomes(failed.servers, servers[n].port + 1)
          /\ ServerBecomes(startServer(servers[n].port + 1, st, failed), "error")

NextServer ==
    \/ \E port \in ServerPorts : \E st \in {"bound", "inuse"} : StartServer(port, st)
    \/ StopServer
    \/ \E n \in 1..Len(servers) : \E st \in {"bound", "inuse"} : ServerError(n, st)

-----------------------------------------------------------------------------
(* Initial state: the module-level initialisers *)

\* the polling tab button before any event
LegacyInit ==
    [visible |-> {}, activeButtons |-> {}, activeButtonCount |-> 0,
     pollingInterval |-> 0, timers |-> 0, consecutiveErrors |-> 0,
     isUpdating |-> FALSE, run |-> "none",
     appear |-> [i \in Ids |-> "none"], settings |-> [i \in Ids |-> -1]]

\* `let server = null`, `let currentPort = 8085`, no server created yet
InitSide ==
    /\ server = 0
    /\ currentPort = DefaultPort
    /\ servers = <<>>
    /\ legacy = LegacyInit

Init ==
    /\ currentState = EmptyState
    /\ listeners = <<>>
    /\ httpLog = [req |-> "none", status |-> 0, threw |-> {}, events |-> <<>>]
    /\ visible = [k \in Kinds |-> {}]
    /\ activeButtons = [k \in Kinds |-> {}]
    /\ cachedSettings = [k \in Kinds |-> [i \in Ids |-> None]]
    /\ lastButtonStates = [k \in {"tab", "prayerbutton"} |-> [i \in Ids |-> None]]
    /\ activeButtonCount = [k \in PollKinds |-> 0]
    /\ pollingInterval = [k \in PollKinds |-> 0]
    /\ tasks = {}
    /\ inflight = {}
    /\ fetches = [k \in PollKinds |-> 0]
    /\ shown = [k \in Kinds |-> [i \in Ids |-> NoImg]]
    /\ lastRun = [k \in {"tab", "prayerbutton"} |-> NoRun]
    /\ owed = {}
    /\ stale = 0
    /\ atJson = [k \in PollKinds |-> 0]
    /\ InitSide
    /\ cachedImages = {}
    /\ step = StepOf("Init", "none", "-", {})

-----------------------------------------------------------------------------
(* The tab button with the state store *)

\* settings the host supplies when a button appears: b1 is new (no
\* settings yet), b2 was configured as the Combat tab
TabSettingsShown(i) ==
    IF i = "b1" THEN {[tabName |-> "", keyToPress |-> ""]}
    ELSE {[tabName |-> "Combat", keyToPress |-> "f1"]}

\* settings the property inspector sends: b1 is switched between two tabs,
\* b2 is sent its settings again
TabSettingsSent(i) ==
    IF i = "b1" THEN {[tabName |-> "inventory", keyToPress |-> "escape"],
                      [tabName |-> "Combat", keyToPress |-> "f1"]}
    ELSE {[tabName |-> "Combat", keyToPress |-> "f1"]}

\* logged out with a stale activeTab, logged in on either tab
TabSnapshots ==
    {[EmptyState EXCEPT !.activeTab = "Inventory"],
     [EmptyState EXCEPT !.player = TRUE, !.activeTab = "Inventory"],
     [EmptyState EXCEPT !.player = TRUE, !.activeTab = "combat"]}

NextTab ==
    \/ \E i \in Ids : \E s \in TabSettingsShown(i) : TabOnWillAppear(i, s)
    \/ \E t \in tasks : TabAfterSetSettings(t)
    \/ \E t \in tasks : TabAfterSetImage(t)
    \/ \E i \in Ids : TabOnWillDisappear(i)
    \/ \E i \in Ids : \E s \in TabSettingsSent(i) : TabOnDidReceiveSettings(i, s)
    \/ \E c \in inflight : SetImageResolved(c)
    \/ \E b \in TabSnapshots : PostState(b, {})

SpecTab == Init /\ [][NextTab]_vars

-----------------------------------------------------------------------------
(* The prayer button with its polling timer *)

Url == "http://localhost:8085/state"

\* b1 is new (no settings yet), b2 was configured for Piety
PrayerSettingsShown(i) ==
    IF i = "b1" THEN {[serverUrl |-> "", pollInterval |-> 0, prayerName |-> ""]}
    ELSE {[serverUrl |-> Url, pollInterval |-> 200, prayerName |-> "Piety"]}

Url2 == "http://localhost:8086/state"

\* the property inspector changes b1's server URL only, or its prayer; b2 is
\* sent its settings again
PrayerSettingsSent(i) ==
    IF i = "b1"
    THEN {[serverUrl |-> Url2, pollInterval |-> 200, prayerName |-> "protect_from_melee"],
          [serverUrl |-> Url, pollInterval |-> 200, prayerName |-> "Piety"]}
    ELSE {[serverUrl |-> Url, pollInterval |-> 200, prayerName |-> "Piety"]}

\* a failed poll, logged out with stale prayer flags, logged in with either
\* prayer active
PrayerData ==
    {FetchFailed,
     [FetchFailed EXCEPT !.ok = TRUE, !.prayers = {"piety", "protect_from_melee"}],
     [FetchFailed EXCEPT !.ok = TRUE, !.player = TRUE, !.prayers = {"protect_from_melee"}],
     [FetchFailed EXCEPT !.ok = TRUE, !.player = TRUE, !.prayers = {"piety"}]}

NextPrayer ==
    \/ \E i \in Ids : \E s \in PrayerSettingsShown(i) : PrayerOnWillAppear(i, s)
    \/ \E t \in tasks : PrayerAfterSetSettings(t)
    \/ \E t \in tasks : PrayerAfterSetImage(t)
    \/ \E i \in Ids : PrayerOnWillDisappear(i)
    \/ \E i \in Ids : \E s \in PrayerSettingsSent(i) : PrayerOnDidReceiveSettings(i, s)
    \/ PollTick("prayerbutton")
    \/ \E d \in PrayerData : PrayerFetchDone(d)
    \/ \E c \in inflight : SetImageResolved(c)

SpecPrayer == Init /\ [][NextPrayer]_vars

-----------------------------------------------------------------------------
(* The push meters with the state store, the meters of one kind on the deck
   at a time *)

\* b1 is new (no settings yet), b2 was configured
MeterSettingsShown(i) ==
    IF i = "b1" THEN {EmptySettings}
    ELSE {[coloredNumbers |-> "true", showNumbers |-> "true", textPosition |-> "top"]}

\* the property inspector hides b1's numbers; b2 is sent its settings again
MeterSettingsSent(i) ==
    IF i = "b1"
    THEN {[coloredNumbers |-> "false", showNumbers |-> "false",
           textPosition |-> "undefined"]}
    ELSE {[coloredNumbers |-> "true", showNumbers |-> "true", textPosition |-> "top"]}

\* logged in, the same numbers after the logout, logged in with other numbers
MeterSnapshots ==
    {[EmptyState EXCEPT !.player = TRUE, !.hpCur = 50, !.hpMax = 99,
                        !.hpStatus = "poisoned", !.prCur = 30, !.prMax = 70,
                        !.spec = 50, !.specEnabled = TRUE, !.activePrayers = 1],
     [EmptyState EXCEPT !.hpCur = 50, !.hpMax = 99,
                        !.hpStatus = "poisoned", !.prCur = 30, !.prMax = 70,
                        !.spec = 50, !.specEnabled = TRUE, !.activePrayers = 1],
     [EmptyState EXCEPT !.player = TRUE, !.hpCur = 99, !.hpMax = 99,
                        !.prCur = 0, !.prMax = 70, !.spec = 100,
                        !.specAvailable = TRUE]}

OtherMetersHidden(k) ==
    \A j \in MeterKinds \ {k} :
        /\ visible[j] = {} /\ activeButtons[j] = {}
        /\ \A t \in tasks : t.kind # j

NextMeters ==
    \/ \E k \in MeterKinds : \E i \in Ids : \E s \in MeterSettingsShown(i) :
          OtherMetersHidden(k) /\ MeterOnWillAppear(k, i, s)
    \/ \E t \in tasks : MeterAfterSetSettings(t)
    \/ \E k \in MeterKinds : \E i \in Ids : MeterOnWillDisappear(k, i)
    \/ \E k \in MeterKinds : \E i \in Ids : \E s \in MeterSettingsSent(i) :
          MeterOnDidReceiveSettings(k, i, s)
    \/ \E b \in MeterSnapshots : PostState(b, {})

SpecMeters == Init /\ [][NextMeters]_vars

-----------------------------------------------------------------------------
(* The lifecycle handlers of the four push kinds, one at a time: a handler
   starts when no onWillAppear is suspended *)

\* the deck has a free key
DeckHasRoom == Cardinality(UNION {{<<k, i>> : i \in visible[k]} : k \in Kinds}) < MaxVisible

NextSeq ==
    \/ \E i \in Ids : \E s \in TabSettingsShown(i) :
          tasks = {} /\ DeckHasRoom /\ TabOnWillAppear(i, s)
    \/ \E t \in tasks : TabAfterSetSettings(t)
    \/ \E t \in tasks : TabAfterSetImage(t)
    \/ \E i \in Ids : tasks = {} /\ TabOnWillDisappear(i)
    \/ \E k \in MeterKinds : \E i \in Ids :
          tasks = {} /\ DeckHasRoom /\ MeterOnWillAppear(k, i, EmptySettings)
    \/ \E t \in tasks : MeterAfterSetSettings(t)
    \/ \E k \in MeterKinds : \E i \in Ids : tasks = {} /\ MeterOnWillDisappear(k, i)
    \/ \E c \in inflight : SetImageResolved(c)

SpecSeq == Init /\ [][NextSeq]_vars

-----------------------------------------------------------------------------
(* The state store with the listeners of two push meters and a further
   listener that may throw *)

\* the kinds whose meters are on the deck, and the updates RuneLite posts
StoreKinds == {"health", "prayermeter"}
StoreSnapshots == {s \in MeterSnapshots : s.hpCur = 50}

NextStore ==
    \/ AddExt
    \/ RemoveExt
    \/ \E k \in StoreKinds : MeterOnWillAppear(k, "b1", EmptySettings)
    \/ \E t \in tasks : MeterAfterSetSettings(t)
    \/ \E k \in StoreKinds : MeterOnWillDisappear(k, "b1")
    \/ \E b \in StoreSnapshots : \E th \in SUBSET {"ext"} : PostState(b, th)

SpecStore == Init /\ [][NextStore]_vars

-----------------------------------------------------------------------------
(* The HTTP server of the state store, with the listener of a health meter
   and a further listener that may throw *)

HttpMethods == {"POST", "OPTIONS", "GET"}
HttpUrls == {"/state", "/other"}

\* bodies: two JSON objects, a truncated one, an empty body, and two JSON
\* texts that are not objects
HttpBodies == {"{}", "{\"player\":{\"name\":\"a\"}}", "{\"player\":", "", "null", "5"}

NextHttp ==
    \/ AddExt
    \/ RemoveExt
    \/ MeterOnWillAppear("health", "b1", EmptySettings)
    \/ \E t \in tasks : MeterAfterSetSettings(t)
    \/ MeterOnWillDisappear("health", "b1")
    \/ \E m \in HttpMethods : \E u \in HttpUrls : \E b \in HttpBodies :
          \E th \in SUBSET {"ext"} : HttpRequest(m, u, b, th)

SpecHttp == Init /\ [][NextHttp]_vars

-----------------------------------------------------------------------------
(* The two polling kinds on the deck: one prayer button and one run meter,
   each with the timer of its module *)

\* the settings the host supplies for the run meter, new or configured, and
\* the settings the property inspector sends
RunSettingsShown == {[serverUrl |-> "", pollInterval |-> 0],
                     [serverUrl |-> Url, pollInterval |-> 200]}
RunSettingsSent == {[serverUrl |-> Url, pollInterval |-> 500]}

\* a failed poll, and the polls of a player who is running down the energy
RunData ==
    {FetchFailed,
     [FetchFailed EXCEPT !.ok = TRUE, !.player = TRUE, !.runEnergy = 10000,
                         !.runEnabled = TRUE],
     [FetchFailed EXCEPT !.ok = TRUE, !.player = TRUE, !.runEnergy = 5000,
                         !.runEnabled = TRUE]}

NextPoll ==
    \/ \E s \in PrayerSettingsShown("b2") : PrayerOnWillAppear("b2", s)
    \/ \E t \in tasks : PrayerAfterSetImage(t)
    \/ PrayerOnWillDisappear("b2")
    \/ \E d \in PrayerData : PrayerFetchDone(d)
    \/ \E c \in inflight : SetImageResolved(c)
    \/ \E k \in PollKinds : PollTick(k)
    \/ \E s \in RunSettingsShown : RunOnWillAppear("b1", s)
    \/ \E t \in tasks : RunAfterSetSettings(t)
    \/ RunOnWillDisappear("b1")
    \/ \E s \in RunSettingsSent : RunOnDidReceiveSettings("b1", s)
    \/ \E d \in RunData : \E n \in 0..MaxFetches : RunFetchDone(d, n)

SpecPoll == Init /\ [][NextPoll]_vars

-----------------------------------------------------------------------------
(* Tab buttons or prayer buttons on the deck: the buttons of one of the two
   kinds, the other kind never used *)

TabUnused ==
    /\ visible["tab"] = {} /\ activeButtons["tab"] = {} /\ Pending("tab") = {}
    /\ \A t \in tasks : t.kind # "tab"
    /\ currentState = EmptyState /\ lastRun["tab"] = NoRun
    /\ lastButtonStates["tab"] = [i \in Ids |-> None]

PrayerUnused ==
    /\ visible["prayerbutton"] = {} /\ activeButtons["prayerbutton"] = {}
    /\ Pending("prayerbutton") = {} /\ fetches["prayerbutton"] = 0
    /\ \A t \in tasks : t.kind # "prayerbutton"
    /\ pollingInterval["prayerbutton"] = 0
    /\ lastButtonStates["prayerbutton"] = [i \in Ids |-> None]

\* the updates and poll results of a logged-in player, and a failed poll
RenderSnapshots == {b \in TabSnapshots : b.player}
RenderData == {d \in PrayerData : d.player \/ ~d.ok}

NextRenderTab ==
    \/ \E i \in Ids : \E s \in TabSettingsShown(i) : TabOnWillAppear(i, s)
    \/ \E t \in tasks : TabAfterSetSettings(t)
    \/ \E t \in tasks : TabAfterSetImage(t)
    \/ \E i \in Ids : TabOnWillDisappear(i)
    \/ \E s \in TabSettingsSent("b2") : TabOnDidReceiveSettings("b2", s)
    \/ \E c \in inflight : SetImageResolved(c)
    \/ \E b \in RenderSnapshots : PostState(b, {})

NextRenderPrayer ==
    \/ \E i \in Ids : \E s \in PrayerSettingsShown(i) : PrayerOnWillAppear(i, s)
    \/ \E t \in tasks : PrayerAfterSetSettings(t)
    \/ \E t \in tasks : PrayerAfterSetImage(t)
    \/ \E i \in Ids : PrayerOnWillDisappear(i)
    \/ \E s \in PrayerSettingsSent("b2") : PrayerOnDidReceiveSettings("b2", s)
    \/ PollTick("prayerbutton")
    \/ \E d \in RenderData : PrayerFetchDone(d)
    \/ \E c \in inflight : SetImageResolved(c)

NextRender ==
    \/ PrayerUnused /\ NextRenderTab
    \/ TabUnused /\ NextRenderPrayer

SpecRender == Init /\ [][NextRender]_vars

-----------------------------------------------------------------------------
(* The prayer button on a device whose setImage may fail *)

NextFault ==
    \/ \E i \in Ids : \E s \in PrayerSettingsShown(i) : PrayerOnWillAppear(i, s)
    \/ \E t \in tasks : PrayerAfterSetSettings(t)
    \/ \E t \in tasks : PrayerAfterSetImage(t)
    \/ \E i \in Ids : PrayerOnWillDisappear(i)
    \/ PollTick("prayerbutton")
    \/ \E d \in RenderData : PrayerFetchDone(d)
    \/ \E c \in inflight : SetImageResolved(c)
    \/ \E c \in inflight : SetImageRejected(c)

SpecFault == Init /\ [][NextFault]_vars

-----------------------------------------------------------------------------
(* The polls of the prayer button at the grain of their two awaits *)

NextTimeout ==
    \/ \E s \in PrayerSettingsShown("b2") : PrayerOnWillAppear("b2", s)
    \/ \E t \in tasks : PrayerAfterSetImage(t)
    \/ PrayerOnWillDisappear("b2")
    \/ PollTick("prayerbutton")
    \/ FetchResolved("prayerbutton")
    \/ PrayerFetchRejected
    \/ \E d \in PrayerData : PrayerJsonSettled(d)
    \/ \E c \in inflight : SetImageResolved(c)

SpecTimeout == Init /\ [][NextTimeout]_vars

-----------------------------------------------------------------------------
(* The map button *)

NextMap ==
    \/ \E i \in Ids : MapOnWillAppear(i)
    \/ \E i \in Ids : MapOnWillDisappear(i)
    \/ \E i \in Ids : MapOnKeyDown(i)
    \/ \E i \in Ids : MapOnKeyUp(i)
    \/ \E t \in tasks : \E ok \in BOOLEAN : MapKeyUpSend(t, ok)

SpecMap == Init /\ [][NextMap]_vars

-----------------------------------------------------------------------------
(* The keys of the tab button *)

\* b1 is dropped on the deck without a key, with no tab name, a tab of the
\* table or a name the table lacks; b2 was configured with a key of its own
TabKeySettingsShown(i) ==
    IF i = "b1" THEN {[tabName |-> "", keyToPress |-> ""],
                      [tabName |-> "Combat", keyToPress |-> ""],
                      [tabName |-> "bank", keyToPress |-> ""]}
    ELSE {[tabName |-> "magic", keyToPress |-> "f9"]}

\* the settings a key-down carries: those persisted by onWillAppear, or the
\* settings as they were before setSettings
TabKeySettingsDown(i) ==
    TabKeySettingsShown(i) \cup {TabDefaults(s) : s \in TabKeySettingsShown(i)}

NextTabKeys ==
    \/ \E i \in Ids : \E s \in TabKeySettingsShown(i) : TabOnWillAppear(i, s)
    \/ \E t \in tasks : TabAfterSetSettings(t)
    \/ \E t \in tasks : TabAfterSetImage(t)
    \/ \E i \in Ids : TabOnWillDisappear(i)
    \/ \E c \in inflight : SetImageResolved(c)
    \/ \E i \in Ids : \E s \in TabKeySettingsDown(i) : \E ok \in BOOLEAN :
          TabOnKeyDown(i, s, ok)

SpecTabKeys == Init /\ [][NextTabKeys]_vars

-----------------------------------------------------------------------------
(* The meter renderers on their own: one button of each meter kind is      *)
(* registered, the snapshot and the settings are drawn from the sets       *)
(* below, and one renderer is applied.  The values are such that the       *)
(* double arithmetic of the code and the exact arithmetic of Round agree   *)
(* (they differ where 255 * (1 - (p - 0.5) / 0.5) is a half, as for 7/12). *)

PureStatuses ==
    {"none", "poisoned", "venomed", "diseased", "poisoned_diseased", "venomed_diseased"}

PureSnapshots ==
    {[EmptyState EXCEPT !.player = TRUE, !.hpCur = c, !.hpMax = m, !.hpStatus = st] :
        c \in {-2, 0, 1, 5, 50, 99, 120}, m \in {1, 70, 99, 100}, st \in PureStatuses}
    \cup {[EmptyState EXCEPT !.player = TRUE, !.prCur = c, !.prMax = 70,
                             !.activePrayers = a] : c \in {0, 30, 70}, a \in {0, 1}}
    \cup {[EmptyState EXCEPT !.player = TRUE, !.runEnergy = e, !.runEnabled = b] :
        e \in {Undef, 0, 35, 50, 3472, 5000, 9999, 10000}, b \in BOOLEAN}
    \cup {[EmptyState EXCEPT !.player = TRUE, !.spec = sp, !.specEnabled = b,
                             !.specAvailable = a] :
        sp \in {0, 1, 33, 50, 99, 100}, b \in BOOLEAN, a \in BOOLEAN}

PureSettings ==
    {EmptySettings,
     [EmptySettings EXCEPT !.showNumbers = "false"],
     [EmptySettings EXCEPT !.showNumbers = "true", !.coloredNumbers = "true"],
     [EmptySettings EXCEPT !.coloredNumbers = "true", !.textPosition = "top"]}

PureKinds == MeterKinds \cup {"run"}

InitPure ==
    /\ currentState \in PureSnapshots
    /\ \E st \in PureSettings :
          cachedSettings = [k \in Kinds |-> [i \in Ids |->
              IF k \in PureKinds /\ i = "b1" THEN Some(st) ELSE None]]
    /\ visible = [k \in Kinds |-> IF k \in PureKinds THEN {"b1"} ELSE {}]
    /\ activeButtons = visible
    /\ listeners = <<>>
    /\ httpLog = [req |-> "none", status |-> 0, threw |-> {}, events |-> <<>>]
    /\ lastButtonStates = [k \in {"tab", "prayerbutton"} |-> [i \in Ids |-> None]]
    /\ activeButtonCount = [k \in PollKinds |-> 0]
    /\ pollingInterval = [k \in PollKinds |-> 0]
    /\ tasks = {}
    /\ inflight = {}
    /\ fetches = [k \in PollKinds |-> 0]
    /\ shown = [k \in Kinds |-> [i \in Ids |-> NoImg]]
    /\ lastRun = [k \in {"tab", "prayerbutton"} |-> NoRun]
    /\ owed = {}
    /\ stale = 0
    /\ atJson = [k \in PollKinds |-> 0]
    /\ InitSide
    /\ cachedImages = {}
    /\ step = StepOf("Init", "none", "-", {})

NothingRendered == \A k \in Kinds : \A i \in Ids : shown[k][i] = NoImg

\* update<Kind>Meters(state): setImage(create<Kind>MeterImage(state, settings))
RenderMeter(k) ==
    LET calls == MeterCalls(k, currentState)
    IN  /\ NothingRendered
        /\ shown' = ShownAfter(calls)
        /\ step' = StepOf("RenderMeter", k, "b1", calls)
        /\ UNCHANGED <<storeVars, visible, activeButtons, cachedSettings,
                       lastButtonStates, tasks, inflight, lastRun, pollVars>>

\* updateRunMeters on a fetched snapshot: setImage(createRunMeterImage(data))
RenderRun ==
    LET calls == {[kind |-> "run", id |-> i, img |-> createRunMeterImage(currentState)] :
                  i \in activeButtons["run"]}
    IN  /\ NothingRendered
        /\ shown' = ShownAfter(calls)
        /\ step' = StepOf("RenderRun", "run", "b1", calls)
        /\ UNCHANGED <<storeVars, visible, activeButtons, cachedSettings,
                       lastButtonStates, tasks, inflight, lastRun, pollVars>>

NextPure ==
    \/ \E k \in MeterKinds : RenderMeter(k)
    \/ RenderRun

SpecPure == InitPure /\ [][NextPure]_vars

-----------------------------------------------------------------------------
(* The button renderers with their asset files: two tab buttons with the   *)
(* same settings and one prayer button are registered; each render reads   *)
(* the files it has not cached, and `readable` are the files readFileSync  *)
(* can read during that render.                                            *)

\* loadImage(filename): the cached data URI, else the file when it can be
\* read, else ''; `loaded`: the cached files and the readable ones
loadImage(filename, loaded) == IF filename \in loaded THEN filename ELSE ""

\* a renderer that gives up all layers when one asset fails
createTabImageLoaded_none(tabName, isActive, loaded) ==
    LET img == createTabImage(tabName, isActive)
    IN  IF {img.background, img.icon} \subseteq loaded THEN img
        ELSE [img EXCEPT !.background = "", !.icon = ""]

\* createTabImage: a layer per asset that loadImage returned
createTabImageLoaded(tabName, isActive, loaded) ==
    LET img == createTabImage(tabName, isActive)
    IN  [img EXCEPT !.background = loadImage(@, loaded), !.icon = loadImage(@, loaded)]

\* createPrayerImage: the glow layer needs isActive and its asset
createPrayerImageLoaded(prayerName, isActive, loaded) ==
    LET img == createPrayerImage(prayerName, isActive)
    IN  [img EXCEPT !.background = loadImage(@, loaded),
                    !.glow = isActive /\ loadImage("Activated_prayer.png", loaded) # "",
                    !.icon = loadImage(@, loaded)]

\* the files a render passes to loadImage
TabFiles(tabName, isActive) ==
    {createTabImage(tabName, isActive).background, createTabImage(tabName, isActive).icon}

PrayerFiles(prayerName) ==
    {"Deactivated_prayer.png", "Activated_prayer.png",
     createPrayerImage(prayerName, FALSE).icon}

\* the files the render of a registered button passes to loadImage
TabFilesOf(i) ==
    TabFiles(TabNameOf(Get(cachedSettings["tab"][i])),
             TabIsActive(currentState, Get(cachedSettings["tab"][i])))

PrayerFilesOf(i) ==
    IF cachedSettings["prayerbutton"][i] = None THEN {}
    ELSE PrayerFiles(PrayerNameOf(Get(cachedSettings["prayerbutton"][i])))

AssetTabSettings ==
    {[tabName |-> "inventory", keyToPress |-> "escape"],
     [tabName |-> "Combat", keyToPress |-> "f1"]}

InitAssets ==
    /\ currentState \in {b \in TabSnapshots : b.player}
    /\ \E st \in AssetTabSettings :
          cachedSettings = [k \in Kinds |-> [i \in Ids |->
              IF k = "tab" THEN Some(st)
              ELSE IF k = "prayerbutton" /\ i = "b1"
                   THEN Some([serverUrl |-> Url, pollInterval |-> 200,
                              prayerName |-> "Piety"])
                   ELSE None]]
    /\ visible = [k \in Kinds |-> IF k = "tab" THEN Ids
                                  ELSE IF k = "prayerbutton" THEN {"b1"} ELSE {}]
    /\ activeButtons = visible
    /\ listeners = <<>>
    /\ httpLog = [req |-> "none", status |-> 0, threw |-> {}, events |-> <<>>]
    /\ lastButtonStates = [k \in {"tab", "prayerbutton"} |-> [i \in Ids |-> None]]
    /\ activeButtonCount = [k \in PollKinds |-> 0]
    /\ pollingInterval = [k \in PollKinds |-> 0]
    /\ tasks = {}
    /\ inflight = {}
    /\ fetches = [k \in PollKinds |-> 0]
    /\ shown = [k \in Kinds |-> [i \in Ids |-> NoImg]]
    /\ lastRun = [k \in {"tab", "prayerbutton"} |-> NoRun]
    /\ owed = {}
    /\ stale = 0
    /\ atJson = [k \in PollKinds |-> 0]
    /\ InitSide
    /\ cachedImages = {}
    /\ step = StepOf("Init", "none", "-", {})

\* updateTabButtons for one button: createTabImage(tabName, isActive), then
\* setImage; loadImage caches the files it could read
RenderTabButton(i, readable) ==
    LET settings == Get(cachedSettings["tab"][i])
        isActive == TabIsActive(currentState, settings)
        call == [kind |-> "tab", id |-> i,
                 img |-> createTabImageLoaded(TabNameOf(settings), isActive,
                                              cachedImages \cup readable)]
    IN  /\ i \in activeButtons["tab"]
        /\ readable \subseteq TabFilesOf(i)
        /\ cachedImages' = cachedImages \cup readable
        /\ shown' = ShownAfter({call})
        /\ step' = StepOf("RenderTabButton", "tab", i, {call})
        /\ UNCHANGED <<storeVars, visible, activeButtons, cachedSettings,
                       lastButtonStates, activeButtonCount, pollingInterval, tasks,
                       inflight, fetches, lastRun, owed, stale, atJson, sideVars>>

\* updatePrayerButtons for one button on the poll result `data`
RenderPrayerButton(i, data, readable) ==
    LET settings == Get(cachedSettings["prayerbutton"][i])
        call == [kind |-> "prayerbutton", id |-> i,
                 img |-> createPrayerImageLoaded(PrayerNameOf(settings),
                                                 PrayerIsActive(data, settings),
                                                 cachedImages \cup readable)]
    IN  /\ i \in activeButtons["prayerbutton"]
        /\ readable \subseteq PrayerFilesOf(i)
        /\ cachedImages' = cachedImages \cup readable
        /\ shown' = ShownAfter({call})
        /\ step' = StepOf("RenderPrayerButton", "prayerbutton", i, {call})
        /\ UNCHANGED <<storeVars, visible, activeButtons, cachedSettings,
                       lastButtonStates, activeButtonCount, pollingInterval, tasks,
                       inflight, fetches, lastRun, owed, stale, atJson, sideVars>>

NextAssets ==
    \/ \E i \in Ids : \E readable \in SUBSET TabFilesOf(i) : RenderTabButton(i, readable)
    \/ \E i \in Ids : \E data \in {d \in PrayerData : d.player} : \E readable \in SUBSET PrayerFilesOf(i) :
          RenderPrayerButton(i, data, readable)

SpecAssets == InitAssets /\ [][NextAssets]_vars

-----------------------------------------------------------------------------
(* One prayer button that is shown, hidden and shown again, with polls     *)
(* that do not overlap: the timer fires when no poll and no setImage call  *)
(* of an earlier poll is pending.                                          *)

NextReappear ==
    \/ \E s \in PrayerSettingsShown("b2") : PrayerOnWillAppear("b2", s)
    \/ \E t \in tasks : PrayerAfterSetImage(t)
    \/ PrayerOnWillDisappear("b2")
    \/ fetches["prayerbutton"] = 0 /\ inflight = {} /\ PollTick("prayerbutton")
    \/ \E d \in PrayerData : PrayerFetchDone(d)
    \/ \E c \in inflight : SetImageResolved(c)

SpecReappear == Init /\ [][NextReappear]_vars

-----------------------------------------------------------------------------
(* The push meters with settings notifications that reach a button the     *)
(* host does not show: sent before the button was hidden, handled after.   *)

NextNotify ==
    \/ NextMeters
    \/ \E k \in MeterKinds : \E i \in Ids : \E s \in MeterSettingsSent(i) :
          OtherMetersHidden(k) /\ i \notin visible[k] /\ MeterReceiveSettings(k, i, s)

SpecNotify == Init /\ [][NextNotify]_vars

\* the state server started, stopped and failing to bind, nothing else running
SpecServer == Init /\ [][NextServer]_vars

\* the polling tab button on a deck of two keys
SpecLegacy == Init /\ [][NextLegacy]_vars

-----------------------------------------------------------------------------
(* Claims about the tab button and the prayer button *)

\* the steps that run updateTabButtons
TabRunOps == {"PostState", "TabAfterSetImage", "TabOnDidReceiveSettings"}

\* C1: when updateTabButtons or updatePrayerButtons runs twice in sequence,
\* the first run complete before the second starts, on the same snapshot and
\* with the buttons and settings unchanged, the second run calls setImage
\* for no instance.
C1_SecondRunPushesNothing ==
    /\ (lastRun["tab"].st = "twice" /\ step.op \in TabRunOps) =>
           \A p \in step.pushes : p[1] # "tab"
    /\ (lastRun["prayerbutton"].st = "twice" /\ step.op = "PrayerFetchDone") =>
           step.pushes = {}

\* a second run over two registered buttons, of either kind, whose first run
\* pushed an image
C1_Witness ==
    \/ /\ lastRun["tab"].st = "twice" /\ step.op = "PostState"
       /\ activeButtons["tab"] = Ids
       /\ \A i \in Ids : lastButtonStates["tab"][i] # None
    \/ /\ lastRun["prayerbutton"].st = "twice" /\ step.op = "PrayerFetchDone"
       /\ activeButtons["prayerbutton"] = Ids
       /\ \A i \in Ids : lastButtonStates["prayerbutton"][i] # None

\* C4: after updateTabButtons has processed a snapshot without `player`,
\* every registered tab button shows the inactive background, whatever the
\* snapshot's activeTab.
C4_LoggedOutTabsInactive ==
    (step.op \in TabRunOps /\ ~currentState.player) =>
        \A i \in activeButtons["tab"] :
            shown["tab"][i].background = "backgroud_unactive.png"

\* C5: when a poll has returned a snapshot without `player`, the image last
\* pushed to every registered prayer button is the inactive one.
C5_LoggedOutPrayersInactive ==
    [][\A d \in PrayerData : (PrayerFetchDone(d) /\ d.ok /\ ~d.player) =>
          \A i \in activeButtons'["prayerbutton"] :
              ~shown'["prayerbutton"][i].glow]_vars

\* C6: onDidReceiveSettings of a registered tab button stores the settings,
\* clears the button's fingerprint and calls setImage for that button exactly
\* once and for no other tab button.
C6_TabSettingsOnePush ==
    [][\A i \in Ids : \A s \in TabSettingsSent(i) :
          (TabOnDidReceiveSettings(i, s) /\ i \in activeButtons["tab"]) =>
              /\ cachedSettings'["tab"][i] = Some(s)
              /\ lastButtonStates'["tab"][i] = None
              /\ step'.pushes = {<<"tab", i>>}]_vars

\* C7: once the polls an onDidReceiveSettings of a registered prayer button
\* has started are complete, setImage has been called for that button.
C7_PrayerSettingsPush == (fetches["prayerbutton"] = 0) => owed = {}

\* C9: when no onWillAppear handler of a prayer button is suspended, the
\* polling timer exists exactly if a prayer button is visible.
C9_TimerIffVisible ==
    (\A t \in tasks : t.kind # "prayerbutton") =>
        (pollingInterval["prayerbutton"] # 0 <=> visible["prayerbutton"] # {})

-----------------------------------------------------------------------------
(* Claims about the push meters and the state store *)

\* C2: a state update that gives a meter the image of its previous push does
\* not call setImage for it again.
C2_NoRedundantPush ==
    [][\A k \in MeterKinds : \A i \in Ids :
          (step'.op = "PostState" /\ <<k, i>> \in step'.pushes) =>
              shown'[k][i] # shown[k][i]]_vars

\* C3: a snapshot without `player` gives every registered health, prayer and
\* special attack meter the image of the empty snapshot, whatever numbers the
\* snapshot holds.
C3_LoggedOutMetersEmpty ==
    (step.op = "PostState" /\ ~currentState.player) =>
        \A k \in MeterKinds : \A i \in activeButtons[k] :
            shown[k][i] = MeterImage(k, EmptyState, MeterSettingsOf(k, i))

\* the number of times l is registered
Registered(ls, l) == Cardinality({n \in 1..Len(ls) : ls[n] = l})

\* C8: with the lifecycle handlers run one at a time, between handlers the
\* listener of each push kind is registered exactly once if a button of the
\* kind is visible and not at all otherwise, and no step of a handler of one
\* kind changes the registration of another kind's listener.
C8_ListenerIffVisible ==
    /\ [](tasks = {} =>
            \A k \in PushKinds :
                Registered(listeners, k) = IF visible[k] # {} THEN 1 ELSE 0)
    /\ [][\A k \in PushKinds :
              step'.kind # k => Registered(listeners', k) = Registered(listeners, k)]_vars

\* the last prayer meter has been hidden while both tab buttons stay
C8_Witness ==
    /\ step.op = "MeterOnWillDisappear" /\ step.kind = "prayermeter"
    /\ visible["prayermeter"] = {} /\ visible["tab"] = Ids
    /\ tasks = {} /\ listeners = <<"tab">>

\* C10: an accepted update calls every registered listener once, in the
\* order of registration, before the response is written, and answers 200;
\* the meters of every registered kind show the new state, also when a
\* listener registered before theirs threw.
C10_NotifyAllInOrder ==
    step.op = "PostState" =>
        /\ httpLog.status = 200
        /\ httpLog.events = listeners \o <<"writeHead">>
        /\ \A k \in MeterKinds : \A i \in activeButtons[k] :
              Registered(listeners, k) = 1 =>
                  shown[k][i] = MeterImage(k, currentState, MeterSettingsOf(k, i))

\* the listener that threw was registered between the two meter kinds
C10_Witness ==
    /\ step.op = "PostState" /\ httpLog.threw = {"ext"}
    /\ Len(listeners) = 3 /\ listeners[2] = "ext"
    /\ activeButtons[listeners[3]] # {}

-----------------------------------------------------------------------------
getState == currentState

\* C11: getState returns {} until the first accepted POST /state and from
\* then on the body of the most recent POST /state that parsed as JSON: a
\* POST /state with a body that parses installs it and is answered 200, one
\* with a malformed body is answered 400, leaves the state as it is and
\* calls no listener, and no other step changes the state.
C11_StateIsLastParsedBody ==
    /\ getState = EmptyState
    /\ [][/\ \A b \in HttpBodies : \A th \in SUBSET {"ext"} :
               HttpRequest("POST", "/state", b, th) =>
                   IF JSON_parse(b) # None
                   THEN getState' = Get(JSON_parse(b)) /\ httpLog'.status = 200
                   ELSE /\ getState' = getState /\ httpLog'.status = 400
                        /\ httpLog'.events = <<"writeHead">>
                        /\ shown' = shown
          /\ step'.op # "PostState" => getState' = getState]_vars

\* a malformed POST /state was answered while a posted snapshot was installed
C11_Witness ==
    /\ httpLog.req = "POST /state" /\ httpLog.status = 400
    /\ getState # EmptyState /\ listeners # <<>>

\* C12: every request other than POST /state is answered 404.
C12_OthersAnswered404 ==
    httpLog.req \notin {"none", "POST /state"} => httpLog.status = 404

\* C13: when onWillAppear of a tab button has completed, the button, if it
\* is still on the deck, shows the image of the snapshot getState() returns:
\* active exactly when its tab is the active tab.
C13_AppearRendersLatest ==
    (step.op = "TabAfterSetImage"
        /\ step.id \in visible["tab"] \cap activeButtons["tab"])
    => shown["tab"][step.id] =
           createTabImage(TabNameOf(Get(cachedSettings["tab"][step.id])),
                          TabIsActive(getState, Get(cachedSettings["tab"][step.id])))

\* the tab button i shows the image of the snapshot `state`
TabShows(i, state) ==
    shown["tab"][i] =
        createTabImage(TabNameOf(Get(cachedSettings["tab"][i])),
                       TabIsActive(state, Get(cachedSettings["tab"][i])))

\* C14: once an update with a player and activeTab T has been processed, of
\* the registered tab buttons on the deck exactly those whose tabName equals
\* T show the active image and every other one the inactive image.
C14_UpdateRendersActiveTab ==
    (step.op = "PostState" /\ getState.player)
    => \A i \in visible["tab"] \cap activeButtons["tab"] : TabShows(i, getState)

\* C15: once no handler is suspended and no setImage is pending, every
\* registered tab button on the deck shows active exactly when its tabName
\* equals the activeTab of the latest snapshot.
C15_QuiescentTabsMatch ==
    (tasks = {} /\ inflight = {})
    => \A i \in visible["tab"] \cap activeButtons["tab"] : TabShows(i, getState)

\* C16: when a poll of the run meter fails, updateRunMeters calls setImage
\* for every registered run meter, with the image of a logged-out player.
C16_FailedPollRendersDefault ==
    [][\A n \in 0..MaxFetches :
          RunFetchDone(FetchFailed, n)
          => \A i \in activeButtons["run"] :
                /\ <<"run", i>> \in step'.pushes
                /\ shown'["run"][i] = createRunMeterImage(FetchFailed)]_vars

\* C17: at most one polling timer exists in the process, whatever polling
\* kinds are on the deck.
C17_OneTimer ==
    Cardinality({k \in PollKinds : pollingInterval[k] # 0}) <= 1

\* C19: a poll of the run meter that a later poll has overtaken calls
\* setImage for no button: the setImage calls of a button are issued in the
\* order of the polls that caused them.
C19_PushesInPollOrder ==
    [][\A d \in RunData : RunFetchDone(d, 0) => step'.pushes = {}]_vars

\* C18: when a setImage call of one prayer-button update fails for one
\* button, every other registered prayer button is left with the image of
\* the polled snapshot: active exactly when its prayer is active in it.
C18_FailureLeavesOthers ==
    step.op = "SetImageRejected"
    => \A i \in activeButtons["prayerbutton"] \ {step.id} :
          shown["prayerbutton"][i] =
              createPrayerImage(
                  PrayerNameOf(Get(cachedSettings["prayerbutton"][i])),
                  PrayerIsActive(Get(lastRun["prayerbutton"].data),
                                 Get(cachedSettings["prayerbutton"][i])))

\* C20: a tab or prayer button that has disappeared, with no handler of it
\* suspended and no setImage call of it pending, has no fingerprint stored.
C20_NoFingerprintAfterDisappear ==
    \A k \in {"tab", "prayerbutton"} : \A i \in Ids :
        (/\ i \notin visible[k]
         /\ \A t \in tasks : ~(t.kind = k /\ t.id = i)
         /\ \A c \in inflight : ~(c.kind = k /\ c.id = i))
        => lastButtonStates[k][i] = None

\* C21: every poll that is suspended, at its fetch or at the body of the
\* response, has its timeout timer armed, so that a response that stalls is
\* aborted.
C21_PendingPollHasTimer ==
    \A k \in PollKinds : TimersArmed(k) = fetches[k]

C23_DefaultKeyPersistedAndSent ==
    [][/\ \A i \in Ids : \A s \in TabKeySettingsShown(i) :
             (TabOnWillAppear(i, s) /\ s.keyToPress = "")
             => \E t \in tasks' :
                   /\ t.kind = "tab" /\ t.id = i /\ t.pc = "setSettings"
                   /\ s.tabName \in {"", "inventory"} => t.settings.keyToPress = "escape"
                   /\ s.tabName = "Combat" => t.settings.keyToPress = "f1"
                   /\ s.tabName = "bank" => t.settings.keyToPress = "escape"
       /\ \A i \in Ids : \A s \in TabKeySettingsDown(i) : \A ok \in BOOLEAN :
             (TabOnKeyDown(i, s, ok) /\ s.keyToPress # "")
             => Len(step'.keys) = 1 /\ step'.keys[1].key = s.keyToPress]_vars

\* the combat tab shown without a key is about to persist f1
C23_Witness ==
    \E t \in tasks : /\ t.kind = "tab" /\ t.pc = "setSettings"
                     /\ t.settings = [tabName |-> "Combat", keyToPress |-> "f1"]

\* h = Math.round(n / d) stated without the rounding operator:
\* h <= n/d + 1/2 < h + 1
IsRounded(h, n, d) == 2 * d * h <= 2 * n + d /\ 2 * n + d < 2 * d * (h + 1)

\* C24: the health fill for hp current c and max m > 0 has height
\* round(144*c/m) and ends at the bottom of the 144 pixel canvas (72 for
\* 50/100); its colour is #B00905 without status, #19DA00 poisoned, #24573D
\* venomed, #C5BA73 diseased, and with disease next to poison or venom the
\* left half has the poison or venom colour and the right half #C5BA73.
C24_HealthFill ==
    LET img == shown["health"]["b1"]
        c == currentState.hpCur
        m == currentState.hpMax
        st == currentState.hpStatus
    IN  (img # NoImg /\ c # Undef /\ m > 0) =>
        /\ IsRounded(img.fillHeight, 144 * c, m)
        /\ img.fillY + img.fillHeight = 144
        /\ (c = 50 /\ m = 100) => img.fillHeight = 72
        /\ st = "none" => img.fill = [split |-> FALSE, left |-> "#B00905", right |-> "#B00905"]
        /\ st = "poisoned" => img.fill = [split |-> FALSE, left |-> "#19DA00", right |-> "#19DA00"]
        /\ st = "venomed" => img.fill = [split |-> FALSE, left |-> "#24573D", right |-> "#24573D"]
        /\ st = "diseased" => img.fill = [split |-> FALSE, left |-> "#C5BA73", right |-> "#C5BA73"]
        /\ st = "poisoned_diseased"
           => img.fill = [split |-> TRUE, left |-> "#19DA00", right |-> "#C5BA73"]
        /\ st = "venomed_diseased"
           => img.fill = [split |-> TRUE, left |-> "#24573D", right |-> "#C5BA73"]

\* 50 of 100 hit points, poisoned and diseased, rendered
C24_Witness ==
    /\ currentState.hpCur = 50 /\ currentState.hpMax = 100
    /\ currentState.hpStatus = "poisoned_diseased"
    /\ shown["health"]["b1"] # NoImg
    /\ shown["health"]["b1"].fillY = 72

\* C25: the run meter for run energy e shows the value floor(e/100), a fill
\* of height round(144*e/10000) ending at the bottom of the canvas, in
\* #CEA801 when run is enabled and #ACADA3 otherwise; 10000 enabled gives
\* 100 and a full fill, 0 gives no fill.
C25_RunFill ==
    LET img == shown["run"]["b1"]
        e == currentState.runEnergy
    IN  (img # NoImg /\ e # Undef) =>
        /\ 100 * img.text.value <= e /\ e < 100 * (img.text.value + 1)
        /\ IsRounded(img.fillHeight, 144 * e, 10000)
        /\ img.fillY + img.fillHeight = 144
        /\ img.fill = IF currentState.runEnabled THEN "#CEA801" ELSE "#ACADA3"
        /\ e = 10000 => img.text.value = 100 /\ img.fillHeight = 144
        /\ e = 0 => img.fillHeight = 0

\* full run energy with run enabled, rendered
C25_Witness ==
    /\ currentState.runEnergy = 10000 /\ currentState.runEnabled
    /\ shown["run"]["b1"] # NoImg
    /\ shown["run"]["b1"].text.value = 100

\* C26: the special attack fill asset is the enabled one when the special
\* attack is enabled, else the available one when it is available, else the
\* unavailable one; the black mask from the top has height
\* round(144*(1 - s/100)): none for s = 100, the whole canvas for s = 0.
C26_SpecialAttackFill ==
    LET img == shown["spec"]["b1"]
        sp == currentState.spec
    IN  (img # NoImg /\ sp # Undef) =>
        /\ currentState.specEnabled => img.fill = "special_attack_orb_enable_fill.png"
        /\ (~currentState.specEnabled /\ currentState.specAvailable)
           => img.fill = "special_attack_orb_available_fill.png"
        /\ (~currentState.specEnabled /\ ~currentState.specAvailable)
           => img.fill = "special_attack_orb_unavailable_fill.png"
        /\ IsRounded(img.maskHeight, 144 * (100 - sp), 100)
        /\ sp = 100 => img.maskHeight = 0
        /\ sp = 0 => img.maskHeight = 144

\* enabled and available at 33: the enabled asset wins, part of it masked
C26_Witness ==
    /\ currentState.spec = 33
    /\ currentState.specEnabled /\ currentState.specAvailable
    /\ shown["spec"]["b1"] # NoImg
    /\ shown["spec"]["b1"].fill = "special_attack_orb_enable_fill.png"
    /\ shown["spec"]["b1"].maskHeight > 0

\* the value of a hexadecimal digit and of the two digits from position k
HexVal(ch) == CHOOSE v \in 0..15 : HexDigit[v + 1] = ch
Channel(col, k) == 16 * HexVal(col[k]) + HexVal(col[k + 1])

\* C27: the colour of a coloured health label for p = c/m, p clamped to
\* [0,1]: blue is 00; up to one half red is FF and green round(255*p/0.5),
\* above it green is FF and red round(255*(1-(p-0.5)/0.5)); p = 0 gives
\* #FF0000, one half #FFFF00, 1 #00FF00; both channels are in 0..255.
C27_PercentColor ==
    LET img == shown["health"]["b1"]
        c == currentState.hpCur
        m == currentState.hpMax
        cc == IF c < 0 THEN 0 ELSE IF c > m THEN m ELSE c
        col == img.text.color
        settings == Get(cachedSettings["health"]["b1"])
    IN  (/\ img # NoImg /\ c # Undef /\ m > 0
         /\ settings.coloredNumbers = "true" /\ settings.showNumbers # "false") =>
        /\ Len(col) = 7 /\ col[1] = "#" /\ col[6] = "0" /\ col[7] = "0"
        /\ \A k \in 2..5 : \E v \in 0..15 : HexDigit[v + 1] = col[k]
        /\ Channel(col, 2) \in 0..255 /\ Channel(col, 4) \in 0..255
        /\ 2 * cc <= m => /\ Channel(col, 2) = 255
                          /\ IsRounded(Channel(col, 4), 255 * 2 * cc, m)
        /\ 2 * cc > m => /\ Channel(col, 4) = 255
                         /\ IsRounded(Channel(col, 2), 255 * (2 * m - 2 * cc), m)
        /\ cc = 0 => col = <<"#", "F", "F", "0", "0", "0", "0">>
        /\ 2 * cc = m => col = <<"#", "F", "F", "F", "F", "0", "0">>
        /\ cc = m => col = <<"#", "0", "0", "F", "F", "0", "0">>

\* 99 of 100 hit points with a coloured label: green FF, red round(5.1) = 05
C27_Witness ==
    /\ currentState.hpCur = 99 /\ currentState.hpMax = 100
    /\ shown["health"]["b1"] # NoImg
    /\ shown["health"]["b1"].text.color = <<"#", "0", "5", "F", "F", "0", "0">>

\* C28: a rendered meter of any kind shows its number if and only if the
\* showNumbers setting of the button is not false.
C28_LabelIffShowNumbers ==
    \A k \in PureKinds :
        shown[k]["b1"] # NoImg =>
            (shown[k]["b1"].text.value # Undef
             <=> Get(cachedSettings[k]["b1"]).showNumbers # "false")

\* C29: a render of a tab or prayer button whose asset cannot be loaded
\* (neither cached nor readable) still ends in a setImage for the button,
\* with an image that lacks exactly the layers whose asset failed and holds
\* every other layer.
C29_MissingAssetOmitsLayer ==
    [][/\ \A i \in Ids : \A readable \in SUBSET TabFilesOf(i) :
             RenderTabButton(i, readable) =>
                LET img == shown'["tab"][i]
                    st == Get(cachedSettings["tab"][i])
                    bg == IF TabIsActive(currentState, st) THEN "backgroud_active.png"
                          ELSE "backgroud_unactive.png"
                    icon == TAB_ICONS[TabNameOf(st)]
                    ok(f) == f \in cachedImages \cup readable
                IN  /\ <<"tab", i>> \in step'.pushes
                    /\ img.kind = "tab"
                    /\ img.background = IF ok(bg) THEN bg ELSE ""
                    /\ img.icon = IF ok(icon) THEN icon ELSE ""
       /\ \A i \in Ids : \A data \in {d \in PrayerData : d.player} : \A readable \in SUBSET PrayerFilesOf(i) :
             RenderPrayerButton(i, data, readable) =>
                LET img == shown'["prayerbutton"][i]
                    st == Get(cachedSettings["prayerbutton"][i])
                    icon == PRAYER_ICONS[PrayerNameOf(st)]
                    ok(f) == f \in cachedImages \cup readable
                IN  /\ <<"prayerbutton", i>> \in step'.pushes
                    /\ img.kind = "prayerbutton"
                    /\ img.background = IF ok("Deactivated_prayer.png")
                                        THEN "Deactivated_prayer.png" ELSE ""
                    /\ img.glow = (PrayerIsActive(data, st) /\ ok("Activated_prayer.png"))
                    /\ img.icon = IF ok(icon) THEN icon ELSE ""]_vars

\* a tab button was sent an image with its background and without its icon
C29_Witness ==
    /\ step.op = "RenderTabButton" /\ <<"tab", step.id>> \in step.pushes
    /\ shown["tab"][step.id].icon = ""
    /\ shown["tab"][step.id].background # ""

\* C30: two tab buttons with the same settings, rendered for the same
\* snapshot, show the same image, whatever renders and asset loads happened
\* between their renders.
C30_SameInputsSameImage ==
    \A i \in Ids : \A j \in Ids :
        (/\ shown["tab"][i] # NoImg /\ shown["tab"][j] # NoImg
         /\ cachedSettings["tab"][i] = cachedSettings["tab"][j])
        => shown["tab"][i] = shown["tab"][j]

\* C31: with the lifecycle handlers of a push kind interleaved in any way,
\* once no handler is suspended the registered buttons of the kind are the
\* visible ones, and the listener of the kind is registered if and only if
\* there is one.
C31_RegisteredAreVisible ==
    tasks = {} =>
        \A k \in PushKinds :
            /\ activeButtons[k] = visible[k]
            /\ Registered(listeners, k) > 0 <=> activeButtons[k] # {}

\* C32: when the first poll after a prayer button was registered completes
\* successfully, having run alone, the button shows the active image if and
\* only if its prayer is active in the snapshot of that poll; this holds
\* also for a button that had been shown and hidden before.
C32_ReshownPrayerFollowsPoll ==
    [][\A d \in PrayerData :
          (PrayerFetchDone(d) /\ d.ok /\ lastRun["prayerbutton"].st = "fetching") =>
             \A i \in activeButtons["prayerbutton"] \cap visible["prayerbutton"] :
                 shown'["prayerbutton"][i].glow
                    = PrayerIsActive(d, Get(cachedSettings["prayerbutton"][i]))]_vars

\* C33: whenever no setImage call for a visible tab or prayer button is in
\* flight (neither of a render run nor of its onWillAppear), a stored
\* fingerprint of the button is the fingerprint of the image it shows.
C33_FingerprintIsShownImage ==
    \A i \in Ids :
        /\ (/\ i \in visible["tab"]
            /\ lastButtonStates["tab"][i] # None
            /\ ~\E c \in inflight : c.kind = "tab" /\ c.id = i
            /\ ~\E t \in tasks : t.kind = "tab" /\ t.id = i)
           => shown["tab"][i] = createTabImage(Get(lastButtonStates["tab"][i]).name,
                                               Get(lastButtonStates["tab"][i]).isActive)
        /\ (/\ i \in visible["prayerbutton"]
            /\ lastButtonStates["prayerbutton"][i] # None
            /\ ~\E c \in inflight : c.kind = "prayerbutton" /\ c.id = i
            /\ ~\E t \in tasks : t.kind = "prayerbutton" /\ t.id = i)
           => shown["prayerbutton"][i]
                 = createPrayerImage(Get(lastButtonStates["prayerbutton"][i]).name,
                                     Get(lastButtonStates["prayerbutton"][i]).isActive)

\* C35: the activeButtonCount of a polling kind is never negative, and when
\* no lifecycle handler is suspended it is the number of registered buttons.
C35_CountIsMapSize ==
    \A k \in PollKinds :
        /\ activeButtonCount[k] >= 0
        /\ tasks = {} => activeButtonCount[k] = Cardinality(activeButtons[k])

\* C38: for hp.current >= 0 and hp.max > 0 the height of the health fill and
\* its top edge lie in 0..144, also when current exceeds max.
C38_HealthFillInCanvas ==
    LET img == shown["health"]["b1"]
    IN  (img # NoImg /\ currentState.hpCur >= 0 /\ currentState.hpMax > 0) =>
            /\ img.fillHeight \in 0..144
            /\ img.fillY \in 0..144

\* C40: between handlers of a meter kind the buttons with stored settings
\* are the registered buttons.
C40_SettingsKeysAreButtons ==
    tasks = {} =>
        \A k \in MeterKinds :
            {i \in Ids : cachedSettings[k][i] # None} = activeButtons[k]

\* C37: the state getState returns is always a JSON object.
C37_StateIsObject == getState.json = "object"

LegacyHandlersDone ==
    \A i \in Ids : legacy.appear[i] = "none" /\ legacy.settings[i] = -1

\* C34: once every handler of the polling tab button has completed and a tab
\* button is visible, its interval timer is running.
C34_LegacyTimerRunsWhenVisible ==
    (LegacyHandlersDone /\ legacy.visible # {}) =>
        legacy.timers > 0 /\ legacy.pollingInterval # 0

\* C36: the polling tab button, whose startPolling and stopPolling are those
\* of the prayer button, never has more than one interval timer, and
\* pollingInterval is set exactly when one exists.
C36_AtMostOneTimer ==
    /\ legacy.timers <= 1
    /\ legacy.timers = 1 <=> legacy.pollingInterval # 0

\* the timer has just been restarted at 1000 ms after more than 5 failures
\* in a row
C36_Witness ==
    /\ step.op = "LegacyFinish"
    /\ legacy.timers = 1
    /\ legacy.pollingInterval = LegacyBackoffInterval
    /\ legacy.consecutiveErrors > LegacyErrorLimit

=============================================================================
